---- MODULE Spec2Model ----
(***************************************************************************)
(* A model of the sync worker of soad (src/data/sync_worker.py):           *)
(*   - PositionService.reconcile_positions: the shrink, prune and grow     *)
(*     passes that merge a broker's position snapshot into the Position    *)
(*     table;                                                              *)
(*   - BalanceService.update_all_strategy_balances: the derivation of the  *)
(*     per-strategy cash / positions / total rows and of the uncategorized *)
(*     residual.                                                           *)
(* The Position and Balance tables are sequences of rows in the order the  *)
(* queries return them (no ORDER BY: primary-key order).                   *)
(***************************************************************************)
EXTENDS Integers, Sequences, FiniteSets, TLC

VARIABLES
    positions,        \* the Position table: rows [id, broker, symbol, strategy, quantity]
    brokerPositions,  \* broker -> get_positions(): ordered entries [symbol, quantity]
    updateUncategorized, \* the module flag UPDATE_UNCATEGORIZED_POSITIONS
    pc,               \* where the running handler stands
    broker,           \* the broker argument of the running handler
    dbPositions,      \* reconcile_positions' local db_positions: symbol -> row id
    startPositions,   \* history: the Position table when the running reconcile began
    completed,        \* history: the ledger row sets left by each completed reconcile
    balances,         \* the Balance table: rows [broker, strategy, type, balance, timestamp]
    now,              \* the timestamp of the running / last balance cycle
    cycle,            \* history: what the running / last balance cycle read
    marks,            \* the Position table's other columns: row id -> [cost_basis, ...]
    trades,           \* the Trade table: rows [id, broker, symbol, strategy, side,
                      \*   quantity, executed_price, status]
    result,           \* what the last DBManager call returned / did
    renaming,         \* the rename_strategy calls in flight: slot -> arguments,
                      \*   stage and the rows the stage selected
    statusCalls,      \* the trade status calls in flight: slot -> call, trade
                      \*   id, status to assign and status loaded
    reconcilePositions, \* the module flag RECONCILE_POSITIONS
    batch,            \* the valuation loop: its position in the batch and history
    iteration,        \* the running / last iteration of the sync worker
    committed         \* the tables as of the session's last commit

vars == << positions, brokerPositions, updateUncategorized, pc, broker,
           dbPositions, startPositions, completed,
           balances, now, cycle, marks, trades, result, renaming, statusCalls,
           reconcilePositions, batch, iteration, committed >>

reconcileVars == << positions, brokerPositions, updateUncategorized,
                    dbPositions, startPositions, completed >>
balanceVars == << balances, now, cycle >>
tradeVars == << marks, trades, result, renaming, statusCalls >>
workerVars == << reconcilePositions, batch, iteration, committed >>

(***************************************************************************)
(* Bounds and input domains                                                *)
(***************************************************************************)
MaxRows == 3          \* rows of the Position table at the start (reconcile)
MaxRuns == 2          \* reconcile_positions runs in one behaviour
MaxCycles == 2        \* update_all_strategy_balances cycles in one behaviour
MaxHoldings == 2      \* rows of the Position table (balance derivation)

Brokers == {"b1", "b2"}          \* the brokers rows may belong to
ConfiguredBrokers == {"b1"}      \* the brokers the worker is run for
Symbols == {"SYM", "AAPL"}
Uncategorized == "uncategorized"
RealStrategies == {"alpha", "beta"}
Strategies == RealStrategies \cup {Uncategorized}
\* Quantities: a categorized row is long 60 or short 20, an uncategorized
\* row holds 50; the broker reports a short of 5, 30 or 100.  No quantity of
\* the ledger is a quantity of the broker, so a row that shows a broker
\* quantity was written by the reconciliation.
CategorizedQty == {-20, 60}
UncategorizedQty == {50}
BrokerQty == {-5, 30, 100}

None == "none"

\* No DBManager call has been made and the tables it reads are empty.
NoResult == [call |-> None]

\* The DBManager calls of a kind that may be in flight together.
CallSlots == {1, 2}

\* No rename_strategy call is in flight in a slot.
NoRename == [stage |-> None, broker |-> None, old |-> None, new |-> None,
             loaded |-> FALSE, selected |-> {}]

NoRenames == [k \in CallSlots |-> NoRename]

\* No trade status call is in flight in a slot.
NoCall == [call |-> None, trade |-> 0, status |-> None, loaded |-> None]

NoCalls == [k \in CallSlots |-> NoCall]

NoBatch == [index |-> 0]

NoIteration == [outcome |-> None]

NoCommit == [count |-> 0]

\* The sync worker is not running and RECONCILE_POSITIONS has its default.
WorkerIdle ==
    /\ reconcilePositions = FALSE
    /\ batch = NoBatch
    /\ iteration = NoIteration
    /\ committed = NoCommit

TradesIdle ==
    /\ marks = << >>
    /\ trades = << >>
    /\ result = NoResult
    /\ renaming = NoRenames
    /\ statusCalls = NoCalls

(***************************************************************************)
(* Generic helpers                                                         *)
(***************************************************************************)
Max(a, b) == IF a >= b THEN a ELSE b

Min(a, b) == IF a <= b THEN a ELSE b

Range(seq) == {seq[i] : i \in DOMAIN seq}

RECURSIVE SumSeq(_)
SumSeq(seq) == IF seq = << >> THEN 0 ELSE Head(seq) + SumSeq(Tail(seq))

\* The ordered sequences of distinct elements of S of length at most n.
RECURSIVE DistinctSeqs(_, _)
DistinctSeqs(S, n) ==
    IF n = 0 THEN {<< >>}
    ELSE LET shorter == DistinctSeqs(S, n - 1)
         IN  shorter \cup
             {Append(q, x) : <<q, x>> \in
                 {<<q, x>> \in shorter \X S : Len(q) = n - 1 /\ x \notin Range(q)}}

(***************************************************************************)
(* The Position table and the broker snapshot                              *)
(***************************************************************************)
\* A Position row.  latest_price, cost_basis and last_updated are not part
\* of the reconciliation's decisions and are left out of the row.
PositionRow(id, b, symbol, strategy, quantity) ==
    [id |-> id, broker |-> b, symbol |-> symbol, strategy |-> strategy,
     quantity |-> quantity]

\* The ids of the rows of a table.
Ids(rows) == {rows[i].id : i \in DOMAIN rows}

RowById(rows, id) == CHOOSE r \in Range(rows) : r.id = id

\* The primary key the table gives the next inserted row.
NextId(rows) ==
    IF rows = << >> THEN 1
    ELSE 1 + (CHOOSE m \in {r.id : r \in Range(rows)} :
                 \A r \in Range(rows) : r.id <= m)

\* broker_positions.keys()
BrokerSymbols(snapshot) == {e.symbol : e \in Range(snapshot)}

\* broker_positions.get(symbol), for a symbol the snapshot holds
BrokerPosition(snapshot, symbol) ==
    CHOOSE e \in Range(snapshot) : e.symbol = symbol

\* The ledger of a broker as the set of its (broker, symbol, strategy, quantity).
LedgerRows(rows, b) ==
    {<<r.broker, r.symbol, r.strategy, r.quantity>> :
        r \in {x \in Range(rows) : x.broker = b}}

(***************************************************************************)
(* PositionService                                                         *)
(***************************************************************************)
\* {pos.symbol: pos for pos in rows of the broker}: a dict keyed by symbol
\* alone, so of several rows of one symbol the last one read stays.
FetchDbPositions(rows, b) ==
    LET mine == {i \in DOMAIN rows : rows[i].broker = b}
        last(s) == CHOOSE i \in mine :
                       /\ rows[i].symbol = s
                       /\ \A j \in mine : rows[j].symbol = s => j <= i
    IN  [s \in {rows[i].symbol : i \in mine} |-> rows[last(s)].id]

IsUncategorizedPosition(row) == row.strategy = Uncategorized

RECURSIVE SumQuantities(_, _)
SumQuantities(rows, ids) ==
    IF ids = {} THEN 0
    ELSE LET id == CHOOSE x \in ids : TRUE
         IN  RowById(rows, id).quantity + SumQuantities(rows, ids \ {id})

\* sum(pos.quantity for pos in db_positions.values()
\*     if pos.symbol == symbol and pos.strategy != "uncategorized")
GetCategorizedQuantity(rows, db, symbol) ==
    SumQuantities(rows,
        {id \in {db[s] : s \in DOMAIN db} :
            /\ RowById(rows, id).symbol = symbol
            /\ RowById(rows, id).strategy # Uncategorized})

CalculateNetBrokerQuantity(brokerQuantity, categorizedQuantity) ==
    Max(brokerQuantity - categorizedQuantity, 0)

AdjustUncategorizedPosition(row, netBrokerQuantity) ==
    IF row.quantity > netBrokerQuantity
    THEN [row EXCEPT !.quantity = netBrokerQuantity]
    ELSE row

\* The shrink pass.  The loop visits the values of db_positions; each visit
\* writes only the visited uncategorized row and reads only categorized
\* rows, so the visits do not depend on their order.
RemoveExcessUncategorizedPositions(rows, db, snapshot) ==
    LET visited(r) == r.id \in {db[s] : s \in DOMAIN db}
                      /\ IsUncategorizedPosition(r)
        kept(r) == ~(visited(r) /\ r.symbol \notin BrokerSymbols(snapshot))
        adjust(r) ==
            IF visited(r)
            THEN AdjustUncategorizedPosition(r,
                    CalculateNetBrokerQuantity(
                        BrokerPosition(snapshot, r.symbol).quantity,
                        GetCategorizedQuantity(rows, db, r.symbol)))
            ELSE r
        left == SelectSeq(rows, kept)
    IN  [i \in 1..Len(left) |-> adjust(left[i])]

\* A prune pass that deletes the rows db_positions holds rather than every
\* row of the symbols to remove.
RemoveDbPositionsHeldRows(rows, b, db, snapshot) ==
    LET symbolsToRemove == (DOMAIN db) \ BrokerSymbols(snapshot)
        kept(r) == ~(r.id \in {db[s] : s \in symbolsToRemove})
    IN  SelectSeq(rows, kept)

\* The prune pass: DELETE FROM positions WHERE broker = b AND symbol IN
\* (db_symbols - broker_symbols).
RemoveDbPositions(rows, b, db, snapshot) ==
    LET symbolsToRemove == (DOMAIN db) \ BrokerSymbols(snapshot)
        kept(r) == ~(r.broker = b /\ r.symbol \in symbolsToRemove)
    IN  SelectSeq(rows, kept)

\* An update that books the difference to the broker instead of its quantity.
UpdateExistingPositionDelta(row, brokerPosition) ==
    [row EXCEPT !.quantity = brokerPosition.quantity - row.quantity]

\* An update that adds the broker's quantity to the row's.
UpdateExistingPositionAdd(row, brokerPosition) ==
    [row EXCEPT !.quantity = row.quantity + brokerPosition.quantity]

\* An update that also files the row under the uncategorized bucket.
UpdateExistingPositionRetag(row, brokerPosition) ==
    [row EXCEPT !.quantity = brokerPosition.quantity,
                !.strategy = Uncategorized]

UpdateExistingPosition(row, brokerPosition) ==
    [row EXCEPT !.quantity = brokerPosition.quantity]

InsertNewPosition(rows, b, brokerPosition) ==
    Append(rows, PositionRow(NextId(rows), b, brokerPosition.symbol,
                             Uncategorized, brokerPosition.quantity))

\* A grow pass that inserts a row for a symbol the ledger lacks whatever
\* the flag says.
RECURSIVE AddMissingPositionsUngated(_, _, _, _, _)
AddMissingPositionsUngated(rows, b, db, entries, flag) ==
    IF entries = << >> THEN rows
    ELSE LET e == Head(entries)
             update(r) == IF r.id = db[e.symbol]
                          THEN UpdateExistingPosition(r, e) ELSE r
             next == IF e.symbol \in DOMAIN db
                     THEN [i \in 1..Len(rows) |-> update(rows[i])]
                     ELSE InsertNewPosition(rows, b, e)
         IN  AddMissingPositionsUngated(next, b, db, Tail(entries), flag)

\* The grow pass, over the snapshot's entries in their order.
RECURSIVE AddMissingPositions(_, _, _, _, _)
AddMissingPositions(rows, b, db, entries, flag) ==
    IF entries = << >> THEN rows
    ELSE LET e == Head(entries)
             update(r) == IF r.id = db[e.symbol]
                          THEN UpdateExistingPosition(r, e) ELSE r
             next == IF e.symbol \in DOMAIN db
                     THEN [i \in 1..Len(rows) |-> update(rows[i])]
                     ELSE IF flag THEN InsertNewPosition(rows, b, e)
                     ELSE rows
         IN  AddMissingPositions(next, b, db, Tail(entries), flag)

(***************************************************************************)
(* reconcile_positions, one action per pass                                *)
(***************************************************************************)
\* The Position tables a run may start from: at most MaxRows rows, no two
\* with the same (broker, symbol, strategy), in any row order.
\* Beside the rows of the reconciled broker b1 the table may hold a row of
\* another broker.
LedgerKeys ==
    ({"b1"} \X Symbols \X Strategies) \cup {<<"b2", "SYM", Uncategorized>>}

LedgerQty(key) ==
    IF key[3] = Uncategorized THEN UncategorizedQty ELSE CategorizedQty

InitialLedgers ==
    UNION {
        {[i \in 1..Len(ks) |->
            PositionRow(i, ks[i][1], ks[i][2], ks[i][3], qs[i])] :
                qs \in {f \in [1..Len(ks) -> CategorizedQty \cup UncategorizedQty] :
                           \A i \in 1..Len(ks) : f[i] \in LedgerQty(ks[i])}} :
        ks \in DistinctSeqs(LedgerKeys, MaxRows)}

\* What get_positions() may return: an ordered dict symbol -> position.
Snapshots ==
    UNION {
        {[i \in 1..Len(ss) |-> [symbol |-> ss[i], quantity |-> qs[i]]] :
            qs \in [1..Len(ss) -> BrokerQty]} :
        ss \in DistinctSeqs(Symbols, Cardinality(Symbols))}

NoCycle == [broker |-> None]

ReconcileInit ==
    /\ positions \in InitialLedgers
    /\ brokerPositions \in [ConfiguredBrokers -> Snapshots]
    /\ updateUncategorized \in BOOLEAN
    /\ pc = "idle"
    /\ broker = None
    /\ dbPositions = << >>
    /\ startPositions = << >>
    /\ completed = << >>
    /\ balances = << >>
    /\ now = 0
    /\ cycle = NoCycle
    /\ TradesIdle
    /\ WorkerIdle

\* reconcile_positions, lines 55-59: the first _get_positions and the
\* shrink pass.
ReconcileShrink(b) ==
    /\ pc \in {"idle", "reconciled"}
    /\ Len(completed) < MaxRuns
    /\ broker' = b
    /\ startPositions' = positions
    /\ dbPositions' = FetchDbPositions(positions, b)
    /\ positions' = RemoveExcessUncategorizedPositions(
                        positions, dbPositions', brokerPositions[b])
    /\ pc' = "shrunk"
    /\ UNCHANGED << brokerPositions, updateUncategorized, completed >>
    /\ UNCHANGED balanceVars
    /\ UNCHANGED tradeVars
    /\ UNCHANGED workerVars

\* reconcile_positions, line 60: the prune pass.
ReconcilePrune ==
    /\ pc = "shrunk"
    /\ positions' = RemoveDbPositions(
                        positions, broker, dbPositions, brokerPositions[broker])
    /\ pc' = "pruned"
    /\ UNCHANGED << brokerPositions, updateUncategorized, broker, dbPositions,
                    startPositions, completed >>
    /\ UNCHANGED balanceVars
    /\ UNCHANGED tradeVars
    /\ UNCHANGED workerVars

\* reconcile_positions, lines 61-66: the second _get_positions, the grow
\* pass and the commit.
ReconcileGrow ==
    /\ pc = "pruned"
    /\ dbPositions' = FetchDbPositions(positions, broker)
    /\ positions' = AddMissingPositions(
                        positions, broker, dbPositions',
                        brokerPositions[broker], updateUncategorized)
    /\ completed' = Append(completed, LedgerRows(positions', broker))
    /\ pc' = "reconciled"
    /\ UNCHANGED << brokerPositions, updateUncategorized, broker,
                    startPositions >>
    /\ UNCHANGED balanceVars
    /\ UNCHANGED tradeVars
    /\ UNCHANGED workerVars

ReconcileNext ==
    \/ \E b \in ConfiguredBrokers : ReconcileShrink(b)
    \/ ReconcilePrune
    \/ ReconcileGrow

SpecReconcile == ReconcileInit /\ [][ReconcileNext]_vars

(***************************************************************************)
(* Symbol classification (soad.utils.utils) and the broker's quotes        *)
(***************************************************************************)
OptionSymbol == "SYM240119C00100000"
FuturesSymbol == "./ESZ4"

IsOption(symbol) == symbol = OptionSymbol

IsFuturesSymbol(symbol) == symbol = FuturesSymbol

FuturesContractSize(symbol) == 50

\* What get_current_price may return during a balance cycle: the quote of
\* SYM moves between 10 and 12.
QuotedSymbols == {"SYM", OptionSymbol, FuturesSymbol}

PriceMaps ==
    {[s \in QuotedSymbols |-> IF s = "SYM" THEN p ELSE 3] : p \in {10, 12}}

\* What get_account_info()["value"] may return.
AccountValues == {1000, 5000}

(***************************************************************************)
(* BalanceService                                                          *)
(***************************************************************************)
BalanceRow(b, strategy, type, balance, timestamp) ==
    [broker |-> b, strategy |-> strategy, type |-> type, balance |-> balance,
     timestamp |-> timestamp]

\* select distinct Balance.strategy where broker = b and strategy !=
\* "uncategorized", in the order the strategies first appear.
RECURSIVE DistinctStrategies(_, _, _)
DistinctStrategies(rows, b, found) ==
    IF rows = << >> THEN found
    ELSE LET r == Head(rows)
         IN  DistinctStrategies(Tail(rows), b,
                 IF /\ r.broker = b
                    /\ r.strategy # Uncategorized
                    /\ r.strategy \notin Range(found)
                 THEN Append(found, r.strategy)
                 ELSE found)

GetStrategies(rows, b) == DistinctStrategies(rows, b, << >>)

\* How the database orders rows of one timestamp under ORDER BY timestamp
\* DESC: the query does not say, and the plan decides whether the row
\* written first or the row written last comes out ahead.
TieOrders == {"first", "last"}

\* The rows of a broker, strategy and type that carry the newest timestamp.
NewestIndices(rows, b, strategy, type) ==
    LET mine == {i \in DOMAIN rows :
                    /\ rows[i].broker = b
                    /\ rows[i].strategy = strategy
                    /\ rows[i].type = type}
    IN  {i \in mine : \A j \in mine : rows[j].timestamp <= rows[i].timestamp}

\* The newest row of a broker, strategy and type (order_by timestamp desc,
\* limit 1); among rows of one timestamp the one the tie order puts ahead.
LatestIndex(rows, b, strategy, type, tie) ==
    LET newest == NewestIndices(rows, b, strategy, type)
    IN  CHOOSE i \in newest :
            \A j \in newest : IF tie = "first" THEN i <= j ELSE j <= i

HasBalance(rows, b, strategy, type) ==
    \E r \in Range(rows) :
        r.broker = b /\ r.strategy = strategy /\ r.type = type

GetCashBalance(rows, b, strategy, tie) ==
    IF HasBalance(rows, b, strategy, "cash")
    THEN rows[LatestIndex(rows, b, strategy, "cash", tie)].balance
    ELSE 0

\* One pass of the loop of _calculate_positions_balance: for an option or a
\* future latest_price is first multiplied by the quantity and the
\* multiplier, and the result is multiplied by the quantity again.
PositionValue(row, price) ==
    LET latestPrice ==
            IF IsOption(row.symbol)
            THEN price[row.symbol] * row.quantity * 100
            ELSE IF IsFuturesSymbol(row.symbol)
            THEN price[row.symbol] * row.quantity
                     * FuturesContractSize(row.symbol)
            ELSE price[row.symbol]
    IN  latestPrice * row.quantity

CalculatePositionsBalance(posRows, b, strategy, price) ==
    LET mine(r) == r.broker = b /\ r.strategy = strategy
        value(r) == PositionValue(r, price)
        held == SelectSeq(posRows, mine)
    IN  SumSeq([i \in 1..Len(held) |-> value(held[i])])

\* A write that overwrites the newest row of the key when there is one.
InsertOrUpdateBalanceUpsert(rows, b, strategy, type, value, timestamp) ==
    IF HasBalance(rows, b, strategy, type)
    THEN [rows EXCEPT ![LatestIndex(rows, b, strategy, type, "last")] =
             BalanceRow(b, strategy, type, value, timestamp)]
    ELSE Append(rows, BalanceRow(b, strategy, type, value, timestamp))

InsertOrUpdateBalance(rows, b, strategy, type, value, timestamp) ==
    Append(rows, BalanceRow(b, strategy, type, value, timestamp))

\* A derivation that writes the strategy's worth into its cash row.
UpdateStrategyBalanceCashAccrues(rows, posRows, b, strategy, price, timestamp, tie) ==
    LET cashBalance == GetCashBalance(rows, b, strategy, tie)
        positionsBalance == CalculatePositionsBalance(posRows, b, strategy, price)
        r1 == InsertOrUpdateBalance(rows, b, strategy, "cash",
                                    cashBalance + positionsBalance, timestamp)
        r2 == InsertOrUpdateBalance(r1, b, strategy, "positions",
                                    positionsBalance, timestamp)
    IN  InsertOrUpdateBalance(r2, b, strategy, "total",
                              cashBalance + positionsBalance, timestamp)

\* A derivation that leaves the cash out of the total.
UpdateStrategyBalanceNoCash(rows, posRows, b, strategy, price, timestamp, tie) ==
    LET cashBalance == GetCashBalance(rows, b, strategy, tie)
        positionsBalance == CalculatePositionsBalance(posRows, b, strategy, price)
        r1 == InsertOrUpdateBalance(rows, b, strategy, "cash", cashBalance, timestamp)
        r2 == InsertOrUpdateBalance(r1, b, strategy, "positions",
                                    positionsBalance, timestamp)
    IN  InsertOrUpdateBalance(r2, b, strategy, "total", positionsBalance, timestamp)

UpdateStrategyBalance(rows, posRows, b, strategy, price, timestamp, tie) ==
    LET cashBalance == GetCashBalance(rows, b, strategy, tie)
        positionsBalance == CalculatePositionsBalance(posRows, b, strategy, price)
        r1 == InsertOrUpdateBalance(rows, b, strategy, "cash", cashBalance, timestamp)
        r2 == InsertOrUpdateBalance(r1, b, strategy, "positions",
                                    positionsBalance, timestamp)
    IN  InsertOrUpdateBalance(r2, b, strategy, "total",
                              cashBalance + positionsBalance, timestamp)

RECURSIVE UpdateEachStrategyBalance(_, _, _, _, _, _, _)
UpdateEachStrategyBalance(rows, posRows, b, strategies, price, timestamp, tie) ==
    IF strategies = << >> THEN rows
    ELSE UpdateEachStrategyBalance(
             UpdateStrategyBalance(rows, posRows, b, Head(strategies), price,
                                   timestamp, tie),
             posRows, b, Tail(strategies), price, timestamp, tie)

\* A sum that counts the positions of each strategy and not its cash.
RECURSIVE SumEachStrategyBalancePositionsOnly(_, _, _, _, _, _)
SumEachStrategyBalancePositionsOnly(rows, posRows, b, strategies, price, tie) ==
    IF strategies = << >> THEN 0
    ELSE CalculatePositionsBalance(posRows, b, Head(strategies), price)
         + SumEachStrategyBalancePositionsOnly(rows, posRows, b,
                                               Tail(strategies), price, tie)

RECURSIVE SumEachStrategyBalance(_, _, _, _, _, _)
SumEachStrategyBalance(rows, posRows, b, strategies, price, tie) ==
    IF strategies = << >> THEN 0
    ELSE GetCashBalance(rows, b, Head(strategies), tie)
         + CalculatePositionsBalance(posRows, b, Head(strategies), price)
         + SumEachStrategyBalance(rows, posRows, b, Tail(strategies), price,
                                  tie)

SumAllStrategyBalances(rows, posRows, b, price, tie) ==
    SumEachStrategyBalance(rows, posRows, b, GetStrategies(rows, b), price,
                           tie)

InsertUncategorizedBalance(rows, b, uncategorizedBalance, timestamp) ==
    Append(rows, BalanceRow(b, Uncategorized, "cash", uncategorizedBalance,
                            timestamp))

UpdateUncategorizedBalances(rows, posRows, b, price, totalValue, timestamp, tie) ==
    LET categorizedBalanceSum ==
            SumAllStrategyBalances(rows, posRows, b, price, tie)
        uncategorizedBalance == Max(0, totalValue - categorizedBalanceSum)
    IN  InsertUncategorizedBalance(rows, b, uncategorizedBalance, timestamp)

(***************************************************************************)
(* update_all_strategy_balances, one action per pass                       *)
(***************************************************************************)
\* The sequence of the elements of cands whose index is in S, in order.
RECURSIVE Pick(_, _)
Pick(cands, S) ==
    IF S = {} THEN << >>
    ELSE LET m == CHOOSE i \in S : \A j \in S : i <= j
         IN  << cands[m] >> \o Pick(cands, S \ {m})

\* The positions a balance cycle may find: at most MaxHoldings of these.
HoldingCandidates ==
    << [broker |-> "b1", symbol |-> "SYM", strategy |-> "alpha", quantity |-> 100],
       [broker |-> "b1", symbol |-> OptionSymbol, strategy |-> "alpha", quantity |-> 2],
       [broker |-> "b1", symbol |-> "SYM", strategy |-> "beta", quantity |-> -20],
       [broker |-> "b1", symbol |-> FuturesSymbol, strategy |-> "beta", quantity |-> 1],
       [broker |-> "b1", symbol |-> "SYM", strategy |-> Uncategorized, quantity |-> 50],
       [broker |-> "b2", symbol |-> "SYM", strategy |-> "alpha", quantity |-> 60] >>

Holdings ==
    {LET picked == Pick(HoldingCandidates, S)
     IN  [i \in 1..Len(picked) |->
            PositionRow(i, picked[i].broker, picked[i].symbol,
                        picked[i].strategy, picked[i].quantity)] :
        S \in {T \in SUBSET (DOMAIN HoldingCandidates) :
                  Cardinality(T) <= MaxHoldings}}

\* The Balance table before the first cycle: the cash supplied to the
\* strategies from outside, at timestamp 0.
CashCandidates ==
    << BalanceRow("b1", "alpha", "cash", 200, 0),
       BalanceRow("b1", "beta", "cash", 500, 0),
       BalanceRow("b2", "alpha", "cash", 700, 0) >>

\* A second cash row written for alpha from outside at the same timestamp.
TiedCash == BalanceRow("b1", "alpha", "cash", 300, 0)

SuppliedCash == CashCandidates \o << TiedCash >>

InitialBalances ==
    {Pick(SuppliedCash, S) : S \in SUBSET (DOMAIN SuppliedCash)}

BalanceInit ==
    /\ positions \in Holdings
    /\ balances \in InitialBalances
    /\ now = 0
    /\ cycle = NoCycle
    /\ pc = "idle"
    /\ broker = None
    /\ brokerPositions = << >>
    /\ updateUncategorized = FALSE
    /\ dbPositions = << >>
    /\ startPositions = << >>
    /\ completed = << >>
    /\ TradesIdle
    /\ WorkerIdle

\* update_all_strategy_balances, lines 305-306: the strategies are read and
\* each gets its cash, positions and total row.  price is what the broker
\* quotes during this pass, tie how the database orders rows of one
\* timestamp.
BalanceStrategies(b, price, tie) ==
    /\ pc \in {"idle", "balanced"}
    /\ now < MaxCycles
    /\ now' = now + 1
    /\ broker' = b
    /\ balances' = UpdateEachStrategyBalance(
                       balances, positions, b, GetStrategies(balances, b),
                       price, now', tie)
    /\ cycle' = [broker |-> b, before |-> balances,
                 price1 |-> price, price2 |-> None, value |-> None]
    /\ pc' = "strategies"
    /\ UNCHANGED reconcileVars
    /\ UNCHANGED tradeVars
    /\ UNCHANGED workerVars

\* update_all_strategy_balances, lines 307-308: the residual of the account
\* value and the commit.  price and value are what the broker returns
\* during this pass.
BalanceUncategorized(price, value, tie) ==
    /\ pc = "strategies"
    /\ balances' = UpdateUncategorizedBalances(
                       balances, positions, broker, price, value, now, tie)
    /\ cycle' = [cycle EXCEPT !.price2 = price, !.value = value]
    /\ pc' = "balanced"
    /\ UNCHANGED << broker, now >>
    /\ UNCHANGED reconcileVars
    /\ UNCHANGED tradeVars
    /\ UNCHANGED workerVars

BalanceNext ==
    \/ \E b \in ConfiguredBrokers : \E price \in PriceMaps :
          \E tie \in TieOrders : BalanceStrategies(b, price, tie)
    \/ \E price \in PriceMaps : \E value \in AccountValues :
          \E tie \in TieOrders : BalanceUncategorized(price, value, tie)

SpecBalance == BalanceInit /\ [][BalanceNext]_vars

(***************************************************************************)
(* Numbers: Python floats as exact fractions n/d in lowest terms, d > 0.   *)
(* NoNumber stands for Python's None where a number is expected.           *)
(***************************************************************************)
Abs(x) == IF x < 0 THEN -x ELSE x

RECURSIVE GCD(_, _)
GCD(a, b) == IF b = 0 THEN a ELSE GCD(b, a % b)

Number(n, d) ==
    LET g == GCD(Abs(n), Abs(d))
        sign == IF d < 0 THEN -1 ELSE 1
    IN  [n |-> (sign * n) \div g, d |-> (sign * d) \div g]

NoNumber == [n |-> 0, d |-> 0]

\* What a call or a computation may come to beside a number or None: an
\* exception, or the call was not made.
Raises == [n |-> 1, d |-> 0]

NotCalled == [n |-> 2, d |-> 0]

IsNumber(x) == x.d # 0

Whole(k) == Number(k, 1)

Sub(a, b) == Number(a.n * b.d - b.n * a.d, a.d * b.d)

Mul(a, b) == Number(a.n * b.n, a.d * b.d)

\* a / b, for b other than zero
Div(a, b) == Number(a.n * b.d, a.d * b.n)

(***************************************************************************)
(* DBManager (src/database/db_manager.py): the profit/loss of a trade      *)
(***************************************************************************)
OptionMultiplier == 100

\* str.lower() on the spellings of a side
Lower(side) ==
    CASE side = "BUY" -> "buy"
      [] side = "Sell" -> "sell"
      [] OTHER -> side

TradeRow(id, b, symbol, strategy, side, quantity, executedPrice, status) ==
    [id |-> id, broker |-> b, symbol |-> symbol, strategy |-> strategy,
     side |-> side, quantity |-> quantity, executed_price |-> executedPrice,
     status |-> status]

NoPosition == [id |-> 0]

\* get_position: the first row of the broker, symbol and strategy, or None.
GetPosition(rows, b, symbol, strategy) ==
    LET match(r) == r.broker = b /\ r.symbol = symbol /\ r.strategy = strategy
        found == SelectSeq(rows, match)
    IN  IF found = << >> THEN NoPosition ELSE found[1]

\* position.cost_basis
CostBasis(columns, position) == columns[position.id].cost_basis

\* A partial sell that charges the whole cost basis to the part sold.
CalculatePartialProfitLossWholeCost(trade, position, columns) ==
    IF \/ position = NoPosition
       \/ ~IsNumber(trade.executed_price)
    THEN NoNumber
    ELSE IF ~IsNumber(CostBasis(columns, position))
    THEN NoNumber
    ELSE Sub(Mul(trade.executed_price, Whole(trade.quantity)),
             CostBasis(columns, position))

\* calculate_partial_profit_loss.  Every exception (no position, a cost
\* basis or price of None, a position of quantity 0) is caught and None is
\* returned.
CalculatePartialProfitLoss(trade, position, columns) ==
    IF Lower(trade.side) = "sell"
    THEN IF \/ position = NoPosition
            \/ ~IsNumber(trade.executed_price)
         THEN NoNumber
         ELSE IF \/ ~IsNumber(CostBasis(columns, position))
                 \/ position.quantity = 0
         THEN NoNumber
         ELSE Mul(Sub(trade.executed_price,
                      Div(CostBasis(columns, position),
                          Whole(position.quantity))),
                  Whole(trade.quantity))
    ELSE IF Lower(trade.side) = "buy"
    THEN IF position = NoPosition
         THEN NoNumber
         ELSE IF position.quantity < 0
         THEN IF \/ ~IsNumber(CostBasis(columns, position))
                 \/ ~IsNumber(trade.executed_price)
              THEN NoNumber
              ELSE Mul(Sub(Div(CostBasis(columns, position),
                               Whole(Abs(position.quantity))),
                           trade.executed_price),
                       Whole(Abs(trade.quantity)))
         ELSE NoNumber
    ELSE NoNumber

\* The short cover of calculate_profit_loss, lines 205-210; float(None)
\* raises for a cost basis of None.
ShortCoverProfitLoss(trade, position, columns) ==
    IF ~IsNumber(CostBasis(columns, position))
    THEN Raises
    ELSE Mul(Sub(Div(CostBasis(columns, position),
                     Whole(Abs(position.quantity))),
                 trade.executed_price),
             Whole(Abs(trade.quantity)))

\* A full sell that takes the cost basis as a cost per share.
FullSellProfitLossPerShare(trade, position, columns) ==
    IF ~IsNumber(CostBasis(columns, position))
    THEN NoNumber
    ELSE Mul(Sub(trade.executed_price, CostBasis(columns, position)),
             Whole(trade.quantity))

\* The full sell of calculate_profit_loss, lines 233-235; float(None)
\* raises for a cost basis of None.
FullSellProfitLoss(trade, position, columns) ==
    IF ~IsNumber(CostBasis(columns, position))
    THEN Raises
    ELSE Sub(Mul(trade.executed_price, Whole(trade.quantity)),
             CostBasis(columns, position))

\* The adjustment for futures and options, lines 250-261; None times a
\* multiplier raises.
AdjustProfitLoss(symbol, profitLoss) ==
    LET futures == IF IsFuturesSymbol(symbol)
                   THEN IF IsNumber(profitLoss)
                        THEN Mul(profitLoss, Whole(FuturesContractSize(symbol)))
                        ELSE Raises
                   ELSE profitLoss
    IN  IF IsOption(symbol)
        THEN IF IsNumber(futures)
             THEN Mul(futures, Whole(OptionMultiplier))
             ELSE Raises
        ELSE futures

\* The body of the try of calculate_profit_loss, lines 176-267: the number
\* or None (NoNumber) it returns, or Raises.  float(None) raises for an
\* executed price of None.
TryCalculateProfitLoss(trade, rows, columns) ==
    LET position == GetPosition(rows, trade.broker, trade.symbol,
                                trade.strategy)
    IN  IF ~IsNumber(trade.executed_price)
        THEN Raises
        ELSE IF Lower(trade.side) = "buy"
        THEN IF position # NoPosition /\ position.quantity < 0
             THEN ShortCoverProfitLoss(trade, position, columns)
             ELSE NoNumber
        ELSE IF Lower(trade.side) = "sell"
        THEN LET profitLoss ==
                     IF /\ position # NoPosition
                        /\ position.quantity = trade.quantity
                     THEN FullSellProfitLoss(trade, position, columns)
                     ELSE CalculatePartialProfitLoss(trade, position, columns)
             IN  IF profitLoss = Raises THEN Raises
                 ELSE AdjustProfitLoss(trade.symbol, profitLoss)
        ELSE NoNumber

\* An except clause that logs the exception and raises it again.
ExceptReraises(outcome) == outcome

\* The except clause of calculate_profit_loss, lines 268-273: an exception
\* is logged and None is returned.
ExceptReturnsNone(outcome) == IF outcome = Raises THEN NoNumber ELSE outcome

\* calculate_profit_loss; NoNumber is the None it returns.
CalculateProfitLoss(trade, rows, columns) ==
    ExceptReturnsNone(TryCalculateProfitLoss(trade, rows, columns))

(***************************************************************************)
(* calculate_profit_loss applied to a trade and a Position table           *)
(***************************************************************************)
TradedSymbols == {"SYM", OptionSymbol, FuturesSymbol}
TradeSides == {"buy", "sell", "BUY", "Sell", "hold"}
TradeQty == {50, 100, -100}
ExecutedPrices == {Whole(12), Whole(8), NoNumber}
PositionQty == {100, -100, 0}
CostBases == {Whole(1000), Whole(-1000), Whole(250), NoNumber}

\* The columns of a Position row beside its key and quantity.
PositionColumns(costBasis) ==
    [cost_basis |-> costBasis, latest_price |-> NoNumber, last_updated |-> 0,
     underlying_latest_price |-> NoNumber, underlying_volatility |-> NoNumber]

\* The Position tables a trade of alpha at b1 in a symbol may meet: the
\* position of alpha or none, and before or after it a position another
\* strategy holds in the symbol.
ProfitLossTables(symbol) ==
    LET held == {<< q, c >> : q \in PositionQty, c \in CostBases}
        own(h) == << [strategy |-> "alpha", quantity |-> h[1], cost |-> h[2]] >>
        other == << [strategy |-> "beta", quantity |-> 100, cost |-> Whole(500)] >>
        orders == {<< >>, other}
                  \cup {own(h) : h \in held}
                  \cup {own(h) \o other : h \in held}
                  \cup {other \o own(h) : h \in held}
    IN  {[rows |-> [i \in 1..Len(o) |->
                      PositionRow(i, "b1", symbol, o[i].strategy, o[i].quantity)],
          columns |-> [i \in 1..Len(o) |-> PositionColumns(o[i].cost)]] :
            o \in orders}

ProfitLossInit ==
    /\ \E symbol \in TradedSymbols :
          /\ \E t \in ProfitLossTables(symbol) :
                positions = t.rows /\ marks = t.columns
          /\ \E side \in TradeSides, quantity \in TradeQty,
                price \in ExecutedPrices :
                trades = << TradeRow(1, "b1", symbol, "alpha", side, quantity,
                                     price, "open") >>
    /\ result = NoResult
    /\ renaming = NoRenames
    /\ statusCalls = NoCalls
    /\ pc = "idle"
    /\ broker = None
    /\ brokerPositions = << >>
    /\ updateUncategorized = FALSE
    /\ dbPositions = << >>
    /\ startPositions = << >>
    /\ completed = << >>
    /\ balances = << >>
    /\ now = 0
    /\ cycle = NoCycle
    /\ WorkerIdle

\* calculate_profit_loss(trade) for a trade of the table.
CalculateProfitLossCall(i) ==
    /\ pc = "idle"
    /\ result' = [call |-> "calculate_profit_loss", trade |-> trades[i].id,
                  value |-> CalculateProfitLoss(trades[i], positions, marks)]
    /\ pc' = "returned"
    /\ UNCHANGED << marks, trades, renaming, statusCalls, broker >>
    /\ UNCHANGED reconcileVars
    /\ UNCHANGED balanceVars
    /\ UNCHANGED workerVars

ProfitLossNext == \E i \in DOMAIN trades : CalculateProfitLossCall(i)

SpecProfitLoss == ProfitLossInit /\ [][ProfitLossNext]_vars

(***************************************************************************)
(* DBManager: the status of a trade                                        *)
(***************************************************************************)
MaxTrades == 3        \* rows of the Trade table

\* The ids the callers pass: those of the table and one it does not hold.
TradeIds == 1..(MaxTrades + 1)

TradeStatuses == {"open", "filled", "cancelled"}

\* select(Trade).filter_by(id=trade_id), result.scalar(): the index of the
\* row, 0 for None.
TradeIndex(rows, id) ==
    IF \E i \in DOMAIN rows : rows[i].id = id
    THEN CHOOSE i \in DOMAIN rows : rows[i].id = id
    ELSE 0

\* select(Trade).filter_by(id=trade_id), result.scalar(): the status of
\* the row loaded into the call's session, None when there is no row.
LoadedStatus(rows, id) ==
    IF TradeIndex(rows, id) = 0 THEN None
    ELSE rows[TradeIndex(rows, id)].status

\* The UPDATE a commit writes for the row of the id.
SetStatus(rows, id, status) ==
    IF TradeIndex(rows, id) = 0 THEN rows
    ELSE [rows EXCEPT ![TradeIndex(rows, id)].status = status]

\* trade.status = status; commit.  The flush writes the status when it
\* differs from the one the session loaded, and nothing when it is the
\* same.  For an id the table does not hold the assignment to None raises,
\* the session is rolled back and the table is as it is.
CommitStatus(rows, call) ==
    IF call.loaded = None \/ call.loaded = call.status THEN rows
    ELSE SetStatus(rows, call.trade, call.status)

TradesInit ==
    /\ trades = [i \in 1..MaxTrades |->
                    TradeRow(i, "b1", "SYM", "alpha", "sell", 50, Whole(12),
                             "open")]
    /\ positions = << PositionRow(1, "b1", "SYM", "alpha", 100),
                       PositionRow(2, "b2", "SYM", "alpha", 60) >>
    /\ marks = [id \in Ids(positions) |-> PositionColumns(Whole(1000))]
    /\ balances = << BalanceRow("b1", "alpha", "cash", 100, 0),
                      BalanceRow("b1", "beta", "cash", 5, 0) >>
    /\ result = NoResult
    /\ renaming = NoRenames
    /\ statusCalls = NoCalls
    /\ pc = "idle"
    /\ broker = None
    /\ brokerPositions = << >>
    /\ updateUncategorized = FALSE
    /\ dbPositions = << >>
    /\ startPositions = << >>
    /\ completed = << >>
    /\ now = 0
    /\ cycle = NoCycle
    /\ WorkerIdle

\* update_trade_status, lines 55-59: the session is opened, the trade is
\* selected and the status is assigned to the row the session loaded.
UpdateTradeStatus(k, id, status) ==
    /\ statusCalls[k].call = None
    /\ statusCalls' = [statusCalls EXCEPT ![k] =
           [call |-> "update_trade_status", trade |-> id, status |-> status,
            loaded |-> LoadedStatus(trades, id)]]
    /\ UNCHANGED << marks, trades, result, renaming, pc, broker >>
    /\ UNCHANGED reconcileVars
    /\ UNCHANGED balanceVars
    /\ UNCHANGED workerVars

\* update_trade_status, lines 60-64: the commit, or the rollback; the call
\* returns.
UpdateTradeStatusCommit(k) ==
    /\ statusCalls[k].call = "update_trade_status"
    /\ trades' = CommitStatus(trades, statusCalls[k])
    /\ result' = [call |-> "update_trade_status", trade |-> statusCalls[k].trade,
                  status |-> statusCalls[k].status]
    /\ statusCalls' = [statusCalls EXCEPT ![k] = NoCall]
    /\ UNCHANGED << marks, renaming, pc, broker >>
    /\ UNCHANGED reconcileVars
    /\ UNCHANGED balanceVars
    /\ UNCHANGED workerVars

\* set_trade_filled, lines 85-89: the select of the trade and the
\* assignment of "filled".
SetTradeFilled(k, id) ==
    /\ statusCalls[k].call = None
    /\ statusCalls' = [statusCalls EXCEPT ![k] =
           [call |-> "set_trade_filled", trade |-> id, status |-> "filled",
            loaded |-> LoadedStatus(trades, id)]]
    /\ UNCHANGED << marks, trades, result, renaming, pc, broker >>
    /\ UNCHANGED reconcileVars
    /\ UNCHANGED balanceVars
    /\ UNCHANGED workerVars

\* set_trade_filled, lines 90-94: the commit, or the rollback.
SetTradeFilledCommit(k) ==
    /\ statusCalls[k].call = "set_trade_filled"
    /\ trades' = CommitStatus(trades, statusCalls[k])
    /\ result' = [call |-> "set_trade_filled", trade |-> statusCalls[k].trade,
                  status |-> statusCalls[k].status]
    /\ statusCalls' = [statusCalls EXCEPT ![k] = NoCall]
    /\ UNCHANGED << marks, renaming, pc, broker >>
    /\ UNCHANGED reconcileVars
    /\ UNCHANGED balanceVars
    /\ UNCHANGED workerVars

\* set_trade_cancelled, lines 98-102: the select of the trade and the
\* assignment of "cancelled".
SetTradeCancelled(k, id) ==
    /\ statusCalls[k].call = None
    /\ statusCalls' = [statusCalls EXCEPT ![k] =
           [call |-> "set_trade_cancelled", trade |-> id, status |-> "cancelled",
            loaded |-> LoadedStatus(trades, id)]]
    /\ UNCHANGED << marks, trades, result, renaming, pc, broker >>
    /\ UNCHANGED reconcileVars
    /\ UNCHANGED balanceVars
    /\ UNCHANGED workerVars

\* set_trade_cancelled, lines 103-107: the commit, or the rollback.
SetTradeCancelledCommit(k) ==
    /\ statusCalls[k].call = "set_trade_cancelled"
    /\ trades' = CommitStatus(trades, statusCalls[k])
    /\ result' = [call |-> "set_trade_cancelled", trade |-> statusCalls[k].trade,
                  status |-> statusCalls[k].status]
    /\ statusCalls' = [statusCalls EXCEPT ![k] = NoCall]
    /\ UNCHANGED << marks, renaming, pc, broker >>
    /\ UNCHANGED reconcileVars
    /\ UNCHANGED balanceVars
    /\ UNCHANGED workerVars

TradesNext ==
    \/ \E k \in CallSlots : \E id \in TradeIds : \E status \in TradeStatuses :
          UpdateTradeStatus(k, id, status)
    \/ \E k \in CallSlots : UpdateTradeStatusCommit(k)
    \/ \E k \in CallSlots : \E id \in TradeIds : SetTradeFilled(k, id)
    \/ \E k \in CallSlots : SetTradeFilledCommit(k)
    \/ \E k \in CallSlots : \E id \in TradeIds : SetTradeCancelled(k, id)
    \/ \E k \in CallSlots : SetTradeCancelledCommit(k)

SpecTrades == TradesInit /\ [][TradesNext]_vars

(***************************************************************************)
(* DBManager: the name of a strategy (rename_strategy)                     *)
(***************************************************************************)
\* The strategy names rename_strategy is called with.
RenameNames == {"alpha", "gamma"}

\* select(...).filter_by(broker=broker, strategy=old_strategy_name): the
\* rows loaded into the call's session.
SelectRows(rows, b, old) ==
    {i \in DOMAIN rows : rows[i].broker = b /\ rows[i].strategy = old}

\* for row in rows: row.strategy = new name; commit.  The flush writes the
\* new name to the rows the session loaded, whatever they hold by then,
\* and nothing when the new name is the old one.
WriteNames(rows, selected, old, new) ==
    IF old = new THEN rows
    ELSE [i \in DOMAIN rows |->
             IF i \in selected THEN [rows[i] EXCEPT !.strategy = new]
             ELSE rows[i]]

\* rename_strategy, lines 324-337: the session is opened and the Balance
\* rows of the broker and the old name are selected and renamed in it.
RenameStrategySelectBalances(k, b, old, new) ==
    /\ renaming[k].stage = None
    /\ renaming' = [renaming EXCEPT ![k] =
           [stage |-> "balances", broker |-> b, old |-> old, new |-> new,
            loaded |-> TRUE, selected |-> SelectRows(balances, b, old)]]
    /\ UNCHANGED << marks, trades, result, statusCalls, pc, broker >>
    /\ UNCHANGED reconcileVars
    /\ UNCHANGED balanceVars
    /\ UNCHANGED workerVars

\* rename_strategy, line 338: the first commit.
RenameStrategyBalances(k) ==
    /\ renaming[k].stage = "balances"
    /\ renaming[k].loaded
    /\ balances' = WriteNames(balances, renaming[k].selected,
                              renaming[k].old, renaming[k].new)
    /\ renaming' = [renaming EXCEPT ![k] =
           [@ EXCEPT !.stage = "trades", !.loaded = FALSE, !.selected = {}]]
    /\ UNCHANGED << marks, trades, result, statusCalls, pc, broker, now,
                    cycle >>
    /\ UNCHANGED reconcileVars
    /\ UNCHANGED workerVars

\* rename_strategy, lines 344-350: the Trade rows are selected and renamed
\* in the session.
RenameStrategySelectTrades(k) ==
    /\ renaming[k].stage = "trades"
    /\ ~renaming[k].loaded
    /\ renaming' = [renaming EXCEPT ![k] =
           [@ EXCEPT !.loaded = TRUE,
                     !.selected = SelectRows(trades, renaming[k].broker,
                                             renaming[k].old)]]
    /\ UNCHANGED << marks, trades, result, statusCalls, pc, broker >>
    /\ UNCHANGED reconcileVars
    /\ UNCHANGED balanceVars
    /\ UNCHANGED workerVars

\* rename_strategy, line 351: the second commit.
RenameStrategyTrades(k) ==
    /\ renaming[k].stage = "trades"
    /\ renaming[k].loaded
    /\ trades' = WriteNames(trades, renaming[k].selected, renaming[k].old,
                            renaming[k].new)
    /\ renaming' = [renaming EXCEPT ![k] =
           [@ EXCEPT !.stage = "positions", !.loaded = FALSE,
                     !.selected = {}]]
    /\ UNCHANGED << marks, result, statusCalls, pc, broker >>
    /\ UNCHANGED reconcileVars
    /\ UNCHANGED balanceVars
    /\ UNCHANGED workerVars

\* rename_strategy, lines 357-365: the Position rows are selected and
\* renamed in the session.
RenameStrategySelectPositions(k) ==
    /\ renaming[k].stage = "positions"
    /\ ~renaming[k].loaded
    /\ renaming' = [renaming EXCEPT ![k] =
           [@ EXCEPT !.loaded = TRUE,
                     !.selected = SelectRows(positions, renaming[k].broker,
                                             renaming[k].old)]]
    /\ UNCHANGED << marks, trades, result, statusCalls, pc, broker >>
    /\ UNCHANGED reconcileVars
    /\ UNCHANGED balanceVars
    /\ UNCHANGED workerVars

\* rename_strategy, lines 366-370: the third commit; the call returns.
RenameStrategyPositions(k) ==
    /\ renaming[k].stage = "positions"
    /\ renaming[k].loaded
    /\ positions' = WriteNames(positions, renaming[k].selected,
                               renaming[k].old, renaming[k].new)
    /\ renaming' = [renaming EXCEPT ![k] = NoRename]
    /\ UNCHANGED << marks, trades, result, statusCalls, pc, broker,
                    brokerPositions, updateUncategorized, dbPositions,
                    startPositions, completed >>
    /\ UNCHANGED balanceVars
    /\ UNCHANGED workerVars

RenameNext ==
    \/ \E k \in CallSlots : \E b \in Brokers :
          \E old \in RenameNames : \E new \in RenameNames :
             RenameStrategySelectBalances(k, b, old, new)
    \/ \E k \in CallSlots : RenameStrategyBalances(k)
    \/ \E k \in CallSlots : RenameStrategySelectTrades(k)
    \/ \E k \in CallSlots : RenameStrategyTrades(k)
    \/ \E k \in CallSlots : RenameStrategySelectPositions(k)
    \/ \E k \in CallSlots : RenameStrategyPositions(k)

\* rename_strategy is called on the tables of the status calls.  The status
\* calls and rename_strategy write different columns of the Trade table
\* (status, strategy), so each is followed on its own.
SpecRename == TradesInit /\ [][RenameNext]_vars

(***************************************************************************)
(* PositionService: update_position_prices_and_volatility                  *)
(***************************************************************************)
\* bool(latest_price): neither None nor 0
Truthy(x) == IsNumber(x) /\ x.n # 0

\* extract_option_details(symbol)[0] if is_option(symbol) else symbol
UnderlyingSymbol(symbol) == IF IsOption(symbol) THEN "SYM" ELSE symbol

\* An update that stores the underlying's price whether or not there is a
\* volatility.
UpdateVolatilityAndUnderlyingPriceUnguarded(columns, fetch) ==
    IF fetch.underlying = Raises
    THEN [columns |-> columns, raised |-> TRUE]
    ELSE IF ~IsNumber(fetch.underlying)
    THEN [columns |-> columns, raised |-> TRUE]
    ELSE [columns |-> [columns EXCEPT
                         !.underlying_latest_price = fetch.underlying,
                         !.underlying_volatility =
                             IF IsNumber(fetch.volatility)
                             THEN fetch.volatility ELSE @],
          raised |-> FALSE]

\* _update_volatility_and_underlying_price.  fetch.underlying is what
\* get_latest_price gives for the underlying, fetch.volatility what
\* _calculate_historical_volatility returns (None when it fails).  With a
\* volatility and no underlying price, float(None) raises after the
\* volatility was assigned.
UpdateVolatilityAndUnderlyingPrice(columns, fetch) ==
    IF fetch.underlying = Raises
    THEN [columns |-> columns, raised |-> TRUE]
    ELSE IF IsNumber(fetch.volatility)
    THEN IF IsNumber(fetch.underlying)
         THEN [columns |-> [columns EXCEPT
                              !.underlying_volatility = fetch.volatility,
                              !.underlying_latest_price = fetch.underlying],
               raised |-> FALSE]
         ELSE [columns |-> [columns EXCEPT
                              !.underlying_volatility = fetch.volatility],
               raised |-> TRUE]
    ELSE [columns |-> columns, raised |-> FALSE]

\* _update_position_price; fetch.price is what get_latest_price gives for
\* the position's own symbol.
UpdatePositionPrice(columns, fetch, nowNaive) ==
    IF fetch.price = Raises
    THEN [columns |-> columns, raised |-> TRUE]
    ELSE IF ~Truthy(fetch.price)
    THEN [columns |-> columns, raised |-> FALSE]
    ELSE UpdateVolatilityAndUnderlyingPrice(
             [columns EXCEPT !.latest_price = fetch.price,
                             !.last_updated = nowNaive],
             fetch)

\* update_position_cost_basis; fetch.cost_basis is what get_cost_basis
\* returns.
UpdatePositionCostBasis(columns, fetch) ==
    IF IsNumber(fetch.cost_basis)
    THEN [columns EXCEPT !.cost_basis = fetch.cost_basis]
    ELSE columns

\* A loop body that undoes what it did to a position when an exception is
\* raised.
ProcessPositionDiscarding(columns, fetch, nowNaive, flag) ==
    LET priced == UpdatePositionPrice(columns, fetch, nowNaive)
    IN  IF priced.raised THEN columns
        ELSE IF flag THEN UpdatePositionCostBasis(priced.columns, fetch)
        ELSE priced.columns

\* A loop body that fetches the cost basis whatever RECONCILE_POSITIONS
\* says.
ProcessPositionAlwaysCostBasis(columns, fetch, nowNaive, flag) ==
    LET priced == UpdatePositionPrice(columns, fetch, nowNaive)
    IN  IF priced.raised THEN priced.columns
        ELSE UpdatePositionCostBasis(priced.columns, fetch)

\* The body of the loop of _update_prices_and_volatility for one position:
\* an exception ends the body and is logged; what was assigned to the
\* position before it stays assigned.
ProcessPosition(columns, fetch, nowNaive, flag) ==
    LET priced == UpdatePositionPrice(columns, fetch, nowNaive)
    IN  IF priced.raised THEN priced.columns
        ELSE IF flag THEN UpdatePositionCostBasis(priced.columns, fetch)
        ELSE priced.columns

\* The calls the body made and what they came to.
Calls(columns, fetch, nowNaive, flag) ==
    LET priced == UpdatePositionPrice(columns, fetch, nowNaive)
    IN  [price |-> fetch.price,
         underlying |-> IF Truthy(fetch.price) THEN fetch.underlying
                        ELSE NotCalled,
         volatility |-> IF Truthy(fetch.price) /\ fetch.underlying # Raises
                        THEN fetch.volatility ELSE NotCalled,
         cost_basis |-> IF flag /\ ~priced.raised THEN fetch.cost_basis
                        ELSE NotCalled]

\* What the calls of one loop body may come to.
Fetches ==
    [price : {Raises, NoNumber, Whole(0), Whole(12)},
     underlying : {Raises, NoNumber, Whole(11)},
     volatility : {NoNumber, Number(1, 4)},
     cost_basis : {NoNumber, Whole(900)}]

\* The columns of a position that was valued before.
ValuedColumns ==
    [cost_basis |-> Whole(1000), latest_price |-> Whole(9), last_updated |-> 0,
     underlying_latest_price |-> Whole(9),
     underlying_volatility |-> Number(1, 2)]

ValuationInit ==
    /\ positions \in Holdings
    /\ marks = [i \in DOMAIN positions |-> ValuedColumns]
    /\ reconcilePositions \in BOOLEAN
    /\ batch = NoBatch
    /\ iteration = NoIteration
    /\ committed = NoCommit
    /\ trades = << >>
    /\ result = NoResult
    /\ renaming = NoRenames
    /\ statusCalls = NoCalls
    /\ pc = "idle"
    /\ broker = None
    /\ brokerPositions = << >>
    /\ updateUncategorized = FALSE
    /\ dbPositions = << >>
    /\ startPositions = << >>
    /\ completed = << >>
    /\ balances = << >>
    /\ now = 0
    /\ cycle = NoCycle

\* update_position_prices_and_volatility, line 218, and the entry of the
\* loop.
ValuationStart ==
    /\ pc = "idle"
    /\ now' = now + 1
    /\ batch' = [index |-> 1, log |-> << >>, before |-> marks, commits |-> 0]
    /\ pc' = "valuing"
    /\ UNCHANGED << positions, marks, reconcilePositions, iteration, committed,
                    trades, result, renaming, statusCalls, broker, brokerPositions,
                    updateUncategorized, dbPositions, startPositions,
                    completed, balances, cycle >>

\* One pass of the loop of _update_prices_and_volatility.
ValuePosition(fetch) ==
    /\ pc = "valuing"
    /\ batch.index <= Len(positions)
    /\ LET position == positions[batch.index]
       IN  /\ marks' = [marks EXCEPT ![position.id] =
                           ProcessPosition(marks[position.id], fetch, now,
                                           reconcilePositions)]
           /\ batch' = [batch EXCEPT
                  !.index = batch.index + 1,
                  !.log = Append(batch.log,
                      [id |-> position.id,
                       underlying |-> UnderlyingSymbol(position.symbol),
                       calls |-> Calls(marks[position.id], fetch, now,
                                       reconcilePositions)])]
    /\ UNCHANGED << positions, pc, now, reconcilePositions, iteration,
                    committed, trades, result, renaming, statusCalls, broker, brokerPositions,
                    updateUncategorized, dbPositions, startPositions,
                    completed, balances, cycle >>

\* update_position_prices_and_volatility, line 220: the commit after the
\* loop.
ValuationCommit ==
    /\ pc = "valuing"
    /\ batch.index > Len(positions)
    /\ batch' = [batch EXCEPT !.commits = batch.commits + 1]
    /\ pc' = "valued"
    /\ UNCHANGED << positions, marks, now, reconcilePositions, iteration,
                    committed, trades, result, renaming, statusCalls, broker, brokerPositions,
                    updateUncategorized, dbPositions, startPositions,
                    completed, balances, cycle >>

ValuationNext ==
    \/ ValuationStart
    \/ \E fetch \in Fetches : ValuePosition(fetch)
    \/ ValuationCommit

SpecValuation == ValuationInit /\ [][ValuationNext]_vars

(***************************************************************************)
(* The sync worker's iteration (_run_sync_worker_iteration)                *)
(***************************************************************************)
\* How a broker answers during an iteration: every call succeeds ("ok"), or
\* get_positions raises, or get_current_price raises, or get_account_info
\* raises.
Healths == {"ok", "positions", "quotes", "account"}

\* The brokers dict of start(), in its order.
BrokerOrders == DistinctSeqs(Brokers, Cardinality(Brokers)) \ {<< >>}

\* What the brokers that answer return during an iteration.
IterationSnapshots ==
    [b \in Brokers |->
        IF b = "b1" THEN << [symbol |-> "SYM", quantity |-> 30] >> ELSE << >>]

IterationPrices == [s \in QuotedSymbols |-> IF s = "SYM" THEN 10 ELSE 3]

IterationAccountValue == 5000

\* The session's state as a commit writes it to the database.
Commit(previous, rows, columns, balanceRows) ==
    [count |-> previous.count + 1, positions |-> rows, marks |-> columns,
     balances |-> balanceRows]

\* reconcile_positions on the rows of the Position table.
ReconcilePositions(rows, b, snapshot, flag) ==
    LET first == FetchDbPositions(rows, b)
        shrunk == RemoveExcessUncategorizedPositions(rows, first, snapshot)
        pruned == RemoveDbPositions(shrunk, b, first, snapshot)
        second == FetchDbPositions(pruned, b)
    IN  AddMissingPositions(pruned, b, second, snapshot, flag)

\* reconcile_positions on the other columns: a row the grow pass updates
\* gets last_updated, a row it inserts gets the fetched price and
\* last_updated, a deleted row is gone.
ReconcileColumns(columns, rows, b, snapshot, flag, price, stamp) ==
    LET first == FetchDbPositions(rows, b)
        shrunk == RemoveExcessUncategorizedPositions(rows, first, snapshot)
        pruned == RemoveDbPositions(shrunk, b, first, snapshot)
        second == FetchDbPositions(pruned, b)
        after == AddMissingPositions(pruned, b, second, snapshot, flag)
        updated == {second[s] : s \in DOMAIN second \cap BrokerSymbols(snapshot)}
    IN  [id \in Ids(after) |->
            IF id \in Ids(pruned)
            THEN IF id \in updated
                 THEN [columns[id] EXCEPT !.last_updated = stamp]
                 ELSE columns[id]
            ELSE [PositionColumns(NoNumber) EXCEPT
                     !.latest_price = Whole(price[RowById(after, id).symbol]),
                     !.last_updated = stamp]]

\* The entries of the snapshot the grow pass gets through before
\* get_latest_price raises in _insert_new_position: those ahead of the first
\* whose symbol db_positions lacks.
RECURSIVE EntriesBeforeRaise(_, _)
EntriesBeforeRaise(entries, db) ==
    IF entries = << >> THEN << >>
    ELSE IF Head(entries).symbol \notin DOMAIN db THEN << >>
    ELSE << Head(entries) >> \o EntriesBeforeRaise(Tail(entries), db)

\* Whether the grow pass of reconcile_positions asks the broker for a
\* price: the flag is on and the broker reports a symbol that has no row
\* after shrink and prune.
FetchesNewPrice(rows, b, snapshot, flag) ==
    LET first == FetchDbPositions(rows, b)
        shrunk == RemoveExcessUncategorizedPositions(rows, first, snapshot)
        pruned == RemoveDbPositions(shrunk, b, first, snapshot)
        second == FetchDbPositions(pruned, b)
    IN  flag /\ EntriesBeforeRaise(snapshot, second) # snapshot

\* reconcile_positions left by the exception of get_latest_price in the
\* grow pass: the rows as shrink, prune and the grow pass up to the
\* exception leave them in the session.
ReconcilePositionsRaising(rows, b, snapshot) ==
    LET first == FetchDbPositions(rows, b)
        shrunk == RemoveExcessUncategorizedPositions(rows, first, snapshot)
        pruned == RemoveDbPositions(shrunk, b, first, snapshot)
        second == FetchDbPositions(pruned, b)
    IN  AddMissingPositions(pruned, b, second,
                            EntriesBeforeRaise(snapshot, second), TRUE)

\* The other columns when reconcile_positions is left by that exception.
ReconcileColumnsRaising(columns, rows, b, snapshot, stamp) ==
    LET first == FetchDbPositions(rows, b)
        shrunk == RemoveExcessUncategorizedPositions(rows, first, snapshot)
        pruned == RemoveDbPositions(shrunk, b, first, snapshot)
        second == FetchDbPositions(pruned, b)
        reached == EntriesBeforeRaise(snapshot, second)
        updated == {second[s] : s \in BrokerSymbols(reached)}
    IN  [id \in Ids(pruned) |->
            IF id \in updated
            THEN [columns[id] EXCEPT !.last_updated = stamp]
            ELSE columns[id]]

\* The strategies _update_each_strategy_balance gets through before
\* get_latest_price raises: those ahead of the first that holds a position.
RECURSIVE StrategiesBeforeRaise(_, _, _)
StrategiesBeforeRaise(strategies, posRows, b) ==
    IF strategies = << >> THEN << >>
    ELSE IF \E r \in Range(posRows) :
                r.broker = b /\ r.strategy = Head(strategies)
    THEN << >>
    ELSE << Head(strategies) >>
         \o StrategiesBeforeRaise(Tail(strategies), posRows, b)

\* update_all_strategy_balances for a broker of the given health: the rows
\* of the session's Balance table when it returns or raises.
UpdateAllStrategyBalances(rows, posRows, b, health, price, value, stamp, tie) ==
    LET strategies == GetStrategies(rows, b)
        reached == IF health = "quotes"
                   THEN StrategiesBeforeRaise(strategies, posRows, b)
                   ELSE strategies
        each == UpdateEachStrategyBalance(rows, posRows, b, reached, price,
                                          stamp, tie)
        raised == \/ health = "account"
                  \/ health = "quotes" /\ reached # strategies
    IN  [rows |-> IF raised THEN each
                  ELSE UpdateUncategorizedBalances(each, posRows, b, price,
                                                   value, stamp, tie),
         raised |-> raised]

\* What the calls of the valuation come to for a position: the quotes of a
\* broker whose get_current_price raises, or that is not configured, raise.
IterationFetch(row, brokers, health) ==
    [price |-> IF row.broker \in Range(brokers) /\ health[row.broker] # "quotes"
               THEN Whole(IterationPrices[row.symbol]) ELSE Raises,
     underlying |-> IF row.broker \in Range(brokers)
                       /\ health[row.broker] # "quotes"
                    THEN Whole(IterationPrices[UnderlyingSymbol(row.symbol)])
                    ELSE Raises,
     volatility |-> Number(1, 4),
     cost_basis |-> Whole(900)]

\* _update_prices_and_volatility over the whole batch.
UpdatePricesAndVolatility(columns, rows, brokers, health, nowNaive, flag) ==
    [id \in DOMAIN columns |->
        IF id \in Ids(rows)
        THEN ProcessPosition(columns[id],
                 IterationFetch(RowById(rows, id), brokers, health),
                 nowNaive, flag)
        ELSE columns[id]]

\* A handler that lets a caught exception end the iteration's work.
CaughtSkippingValuation(stage) == "commit"

\* Where _run_sync_worker_iteration_logic goes on after the except clause
\* that logs an exception of a stage.
Caught(stage) == IF stage = "brokers" THEN "valuation" ELSE "commit"

\* A cancellation that the except clauses of the stages catch.
CancelledAsException(stage) ==
    IF stage \in {"commit", "closing"} THEN "timed_out" ELSE Caught(stage)

\* Where the iteration is after wait_for cancelled it: CancelledError is
\* not an Exception, passes the except clauses and the session's exit, and
\* wait_for raises TimeoutError.
Cancelled(stage) == "timed_out"

Step(step, b, raised) == [step |-> step, broker |-> b, raised |-> raised]

IterationInit ==
    /\ positions \in Holdings
    /\ marks = [i \in DOMAIN positions |-> ValuedColumns]
    /\ balances = CashCandidates
    /\ reconcilePositions \in BOOLEAN
    /\ updateUncategorized \in BOOLEAN
    /\ brokerPositions = IterationSnapshots
    /\ \E order \in BrokerOrders : \E health \in [Brokers -> Healths] :
          iteration = [brokers |-> order, health |-> health, index |-> 0,
                       reconciled |-> FALSE, pending |-> None,
                       log |-> << >>,
                       deadline |-> FALSE, outcome |-> None]
    /\ committed = [count |-> 0, positions |-> positions, marks |-> marks,
                    balances |-> balances]
    /\ batch = NoBatch
    /\ trades = << >>
    /\ result = NoResult
    /\ renaming = NoRenames
    /\ statusCalls = NoCalls
    /\ pc = "idle"
    /\ broker = None
    /\ dbPositions = << >>
    /\ startPositions = << >>
    /\ completed = << >>
    /\ now = 0
    /\ cycle = NoCycle

\* _run_sync_worker_iteration_logic, lines 499-502: the timestamp of the
\* iteration is taken and the session is opened.
IterationStart ==
    /\ pc = "idle"
    /\ now' = now + 1
    /\ iteration' = [iteration EXCEPT !.index = 1]
    /\ pc' = "brokers"
    /\ UNCHANGED << positions, marks, balances, committed, reconcilePositions,
                    updateUncategorized, brokerPositions, batch, trades, renaming, statusCalls,
                    result, broker, dbPositions, startPositions, completed,
                    cycle >>

\* What reconcile_positions' own datetime.now() (line 55; line 531 passes
\* no timestamp) reads: the instant of the iteration's now or a later one.
ClockReads(start) == {start, start + 1}

\* _reconcile_brokers_and_update_balances, lines 530-531: reconcile_positions
\* for the broker the loop stands at, up to its commit; an exception leaves
\* the loop and is caught at line 507.  get_positions raises before
\* anything was changed; get_latest_price raises in the grow pass, and what
\* the passes did before it stays in the session, uncommitted.
ReconcileBroker ==
    /\ pc = "brokers"
    /\ reconcilePositions
    /\ ~iteration.reconciled
    /\ iteration.pending = None
    /\ \E stamp \in ClockReads(now) :
       LET b == iteration.brokers[iteration.index]
           unfetched == iteration.health[b] = "positions"
           unquoted == /\ iteration.health[b] = "quotes"
                       /\ FetchesNewPrice(positions, b, brokerPositions[b],
                                          updateUncategorized)
       IN  /\ startPositions' = positions
           /\ IF unfetched
              THEN /\ pc' = Caught("brokers")
                   /\ iteration' = [iteration EXCEPT
                          !.log = Append(iteration.log,
                                         Step("reconcile", b, TRUE))]
                   /\ UNCHANGED << positions, marks >>
              ELSE IF unquoted
              THEN /\ pc' = Caught("brokers")
                   /\ iteration' = [iteration EXCEPT
                          !.log = Append(iteration.log,
                                         Step("reconcile", b, TRUE))]
                   /\ positions' = ReconcilePositionsRaising(
                           positions, b, brokerPositions[b])
                   /\ marks' = ReconcileColumnsRaising(
                           marks, positions, b, brokerPositions[b], stamp)
              ELSE /\ positions' = ReconcilePositions(
                           positions, b, brokerPositions[b],
                           updateUncategorized)
                   /\ marks' = ReconcileColumns(
                           marks, positions, b, brokerPositions[b],
                           updateUncategorized, IterationPrices, stamp)
                   /\ iteration' = [iteration EXCEPT !.pending = "reconcile"]
                   /\ pc' = pc
    /\ UNCHANGED << balances, committed, now, reconcilePositions,
                    updateUncategorized, brokerPositions, batch, trades,
                    renaming, statusCalls, result, broker, dbPositions, completed, cycle >>

\* reconcile_positions, line 66: the commit of the reconciliation, and the
\* call returns.
CommitReconcile ==
    /\ pc = "brokers"
    /\ iteration.pending = "reconcile"
    /\ committed' = Commit(committed, positions, marks, balances)
    /\ iteration' = [iteration EXCEPT
           !.pending = None,
           !.reconciled = TRUE,
           !.log = Append(iteration.log,
                          Step("reconcile",
                               iteration.brokers[iteration.index], FALSE))]
    /\ UNCHANGED << positions, marks, balances, pc, now, reconcilePositions,
                    updateUncategorized, brokerPositions, batch, trades,
                    renaming, statusCalls, result, broker, dbPositions, startPositions,
                    completed, cycle >>

\* _reconcile_brokers_and_update_balances, line 532:
\* update_all_strategy_balances for the broker the loop stands at, up to
\* its commit; an exception leaves the loop and is caught at line 507, the
\* rows added before it staying in the session.
UpdateBrokerBalances ==
    /\ pc = "brokers"
    /\ reconcilePositions => iteration.reconciled
    /\ iteration.pending = None
    /\ \E tie \in TieOrders :
       LET b == iteration.brokers[iteration.index]
           derived == UpdateAllStrategyBalances(
                          balances, positions, b, iteration.health[b],
                          IterationPrices, IterationAccountValue, now, tie)
       IN  /\ balances' = derived.rows
           /\ IF derived.raised
              THEN /\ pc' = Caught("brokers")
                   /\ iteration' = [iteration EXCEPT
                          !.reconciled = FALSE,
                          !.log = Append(iteration.log,
                                         Step("balance", b, TRUE))]
              ELSE /\ pc' = pc
                   /\ iteration' = [iteration EXCEPT !.pending = "balance"]
    /\ UNCHANGED << positions, marks, committed, now, reconcilePositions,
                    updateUncategorized, brokerPositions, batch, trades,
                    renaming, statusCalls, result, broker, dbPositions, startPositions,
                    completed, cycle >>

\* update_all_strategy_balances, line 308: the commit of the cycle, and the
\* loop of line 529 goes on to the next broker or ends.
CommitBalances ==
    /\ pc = "brokers"
    /\ iteration.pending = "balance"
    /\ committed' = Commit(committed, positions, marks, balances)
    /\ iteration' = [iteration EXCEPT
           !.pending = None,
           !.index = @ + 1,
           !.reconciled = FALSE,
           !.log = Append(iteration.log,
                          Step("balance",
                               iteration.brokers[iteration.index], FALSE))]
    /\ pc' = IF iteration.index = Len(iteration.brokers)
             THEN "valuation" ELSE "brokers"
    /\ UNCHANGED << positions, marks, balances, now, reconcilePositions,
                    updateUncategorized, brokerPositions, batch, trades,
                    renaming, statusCalls, result, broker, dbPositions, startPositions,
                    completed, cycle >>

\* _fetch_and_update_positions: every row of the Position table is valued,
\* up to the commit of update_position_prices_and_volatility.
FetchAndUpdatePositions ==
    /\ pc = "valuation"
    /\ iteration.pending = None
    /\ marks' = UpdatePricesAndVolatility(
                    marks, positions, iteration.brokers, iteration.health,
                    now, reconcilePositions)
    /\ iteration' = [iteration EXCEPT !.pending = "valuation"]
    /\ UNCHANGED << positions, balances, committed, pc, now,
                    reconcilePositions, updateUncategorized, brokerPositions,
                    batch, trades, renaming, statusCalls, result, broker, dbPositions,
                    startPositions, completed, cycle >>

\* update_position_prices_and_volatility, line 220: the commit of the
\* valuation, and the stage returns.
CommitValuation ==
    /\ pc = "valuation"
    /\ iteration.pending = "valuation"
    /\ committed' = Commit(committed, positions, marks, balances)
    /\ iteration' = [iteration EXCEPT
           !.pending = None,
           !.log = Append(iteration.log, Step("valuation", None, FALSE))]
    /\ pc' = "commit"
    /\ UNCHANGED << positions, marks, balances, now, reconcilePositions,
                    updateUncategorized, brokerPositions, batch, trades,
                    renaming, statusCalls, result, broker, dbPositions, startPositions,
                    completed, cycle >>

\* _run_sync_worker_iteration_logic, line 514: the last commit; the exit
\* of the session is still to be awaited.
FinalCommit ==
    /\ pc = "commit"
    /\ committed' = Commit(committed, positions, marks, balances)
    /\ iteration' = [iteration EXCEPT
           !.log = Append(iteration.log, Step("commit", None, FALSE))]
    /\ pc' = "closing"
    /\ UNCHANGED << positions, marks, balances, now, reconcilePositions,
                    updateUncategorized, brokerPositions, batch, trades,
                    renaming, statusCalls, result, broker, dbPositions, startPositions,
                    completed, cycle >>

\* _run_sync_worker_iteration_logic, lines 501 and 515: the session is
\* closed and the iteration returns.
SessionExit ==
    /\ pc = "closing"
    /\ iteration' = [iteration EXCEPT !.outcome = "success"]
    /\ pc' = "completed"
    /\ UNCHANGED << positions, marks, balances, committed, now,
                    reconcilePositions, updateUncategorized, brokerPositions,
                    batch, trades, renaming, statusCalls, result, broker, dbPositions,
                    startPositions, completed, cycle >>

\* _run_sync_worker_iteration, lines 485-493: the timeout of wait_for
\* expires while the iteration awaits, inside a stage, at a commit or at
\* the exit of the session; the iteration is cancelled, the session is
\* closed with what it had not committed, and TimeoutError is raised to
\* the caller.
IterationTimeout ==
    /\ pc \in {"brokers", "valuation", "commit", "closing"}
    /\ ~iteration.deadline
    /\ pc' = Cancelled(pc)
    /\ iteration' = [iteration EXCEPT
           !.deadline = TRUE,
           !.pending = IF pc' = "timed_out" THEN None ELSE @,
           !.outcome = IF pc' = "timed_out" THEN "timeout" ELSE @]
    /\ IF pc' = "timed_out"
       THEN /\ positions' = committed.positions
            /\ marks' = committed.marks
            /\ balances' = committed.balances
       ELSE UNCHANGED << positions, marks, balances >>
    /\ UNCHANGED << committed, now, reconcilePositions, updateUncategorized,
                    brokerPositions, batch, trades, renaming, statusCalls, result, broker,
                    dbPositions, startPositions, completed, cycle >>

IterationNext ==
    \/ IterationStart
    \/ ReconcileBroker
    \/ CommitReconcile
    \/ UpdateBrokerBalances
    \/ CommitBalances
    \/ FetchAndUpdatePositions
    \/ CommitValuation
    \/ FinalCommit
    \/ SessionExit
    \/ IterationTimeout

SpecIteration == IterationInit /\ [][IterationNext]_vars

(***************************************************************************)
(* Claims about reconcile_positions                                        *)
(***************************************************************************)
Snapshot == brokerPositions[broker]

RowsOf(rows, b) == {r \in Range(rows) : r.broker = b}

\* The categorized quantity the ledger holds of a symbol for a broker.
LedgerCategorizedQuantity(rows, b, symbol) ==
    SumQuantities(rows,
        {r.id : r \in {x \in RowsOf(rows, b) :
                          x.symbol = symbol /\ x.strategy # Uncategorized}})

HasCategorized(rows, b, symbol) ==
    \E c \in RowsOf(rows, b) : c.symbol = symbol /\ c.strategy # Uncategorized

NonNegative(rows) == \A r \in rows : r.quantity >= 0

\* The running reconciliation began with no short position, at the broker
\* or in the broker's ledger.
LongOnly ==
    /\ NonNegative(Range(Snapshot))
    /\ NonNegative(RowsOf(startPositions, broker))

\* C1: after the shrink pass, an uncategorized row whose symbol the broker
\* reports and that shares the symbol with categorized rows holds
\* min(previous quantity, max(brokerQty - categorized quantity, 0)).
\* Stated for long positions, where no sign is in play.
C1_ShrinkSubtractsCategorized ==
    (pc = "shrunk" /\ LongOnly) =>
        \A u \in RowsOf(startPositions, broker) :
            ( /\ u.strategy = Uncategorized
              /\ u.symbol \in BrokerSymbols(Snapshot)
              /\ HasCategorized(startPositions, broker, u.symbol) )
            => \E r \in Range(positions) :
                  /\ r.id = u.id
                  /\ r.quantity =
                       Min(u.quantity,
                           Max(BrokerPosition(Snapshot, u.symbol).quantity
                               - LedgerCategorizedQuantity(
                                     startPositions, broker, u.symbol), 0))

\* C2: after a completed reconciliation, an uncategorized row that shares
\* its symbol with categorized rows holds at most
\* max(brokerQty - categorized quantity, 0).  Stated for long positions.
C2_UncategorizedWithinNet ==
    (pc = "reconciled" /\ LongOnly) =>
        \A u \in RowsOf(positions, broker) :
            ( /\ u.strategy = Uncategorized
              /\ u.symbol \in BrokerSymbols(Snapshot)
              /\ HasCategorized(positions, broker, u.symbol) )
            => u.quantity <=
                 Max(BrokerPosition(Snapshot, u.symbol).quantity
                     - LedgerCategorizedQuantity(positions, broker, u.symbol), 0)

\* C3: after a completed reconciliation every symbol the ledger holds for
\* the broker is a symbol the broker reports.
C3_LedgerSymbolsReported ==
    pc = "reconciled" =>
        \A r \in RowsOf(positions, broker) : r.symbol \in BrokerSymbols(Snapshot)

\* A reconciliation completed that began with an uncategorized row and a
\* categorized row of a symbol the broker does not report, and left rows.
C3_Witness ==
    /\ pc = "reconciled"
    /\ \E u, c \in RowsOf(startPositions, broker) :
          /\ u.strategy = Uncategorized /\ c.strategy # Uncategorized
          /\ u.symbol \notin BrokerSymbols(Snapshot)
          /\ c.symbol \notin BrokerSymbols(Snapshot)
    /\ RowsOf(positions, broker) # {}

\* C4 as stated: after a completed reconciliation no row of the broker is
\* negative, whatever the broker reports and the ledger held.
C4_NeverNegative ==
    pc = "reconciled" => NonNegative(RowsOf(positions, broker))

\* C4 as amended: after a completed reconciliation no row of the broker is
\* negative, provided the broker reports no negative quantity and no row of
\* the broker was negative before.
C4_NonNegativeKept ==
    (pc = "reconciled" /\ LongOnly) => NonNegative(RowsOf(positions, broker))

\* A reconciliation of non-negative inputs completed and lowered a row to
\* the broker's quantity.
C4_Witness ==
    /\ pc = "reconciled"
    /\ LongOnly
    /\ \E r \in RowsOf(startPositions, broker) :
          \E r2 \in RowsOf(positions, broker) :
              r2.id = r.id /\ r2.quantity < r.quantity

\* C5: after a completed reconciliation the categorized quantity of every
\* symbol is at most the quantity the broker reports for it.  Stated for
\* long positions.
C5_CategorizedWithinBroker ==
    (pc = "reconciled" /\ LongOnly) =>
        \A e \in Range(Snapshot) :
            LedgerCategorizedQuantity(positions, broker, e.symbol) <= e.quantity

\* C6: against an unchanged snapshot every completed reconciliation leaves
\* the same set of ledger rows as the first.
C6_Idempotent ==
    \A i, j \in DOMAIN completed : completed[i] = completed[j]

\* Two reconciliations completed, the first of which wrote the broker's
\* quantity into a categorized row and left an uncategorized row of
\* another symbol with the broker's quantity.
C6_Witness ==
    /\ pc = "reconciled"
    /\ Len(completed) = 2
    /\ \E x, y \in completed[1] :
          /\ x[3] # Uncategorized /\ x[4] \in BrokerQty
          /\ y[3] = Uncategorized /\ y[4] \in BrokerQty /\ y[2] # x[2]

\* C7: (a) a categorized row whose symbol the broker reports is still in
\* the table, under its strategy, after a completed reconciliation; (b) no
\* step rewrites the broker, symbol or strategy of a row.
C7_Survives ==
    pc = "reconciled" =>
        \A c \in RowsOf(startPositions, broker) :
            (c.strategy # Uncategorized /\ c.symbol \in BrokerSymbols(Snapshot))
            => \E r \in Range(positions) :
                  /\ r.id = c.id /\ r.broker = c.broker
                  /\ r.symbol = c.symbol /\ r.strategy = c.strategy

C7_TagKept ==
    \A r \in Range(positions) : \A r2 \in Range(positions') :
        r2.id = r.id
        => (r2.broker = r.broker /\ r2.symbol = r.symbol
            /\ r2.strategy = r.strategy)

C7_StrategyTagsPreserved == [](C7_Survives) /\ [][C7_TagKept]_vars

\* A reconciliation completed that deleted a row and rewrote the quantity
\* of a categorized row whose symbol the broker reports.
C7_Witness ==
    /\ pc = "reconciled"
    /\ Len(positions) < Len(startPositions)
    /\ \E c \in RowsOf(startPositions, broker) :
          /\ c.strategy # Uncategorized
          /\ \E r \in Range(positions) :
                r.id = c.id /\ r.quantity # c.quantity

\* The rows a step inserted into the Position table.
Inserted == {r \in Range(positions') : r.id \notin Ids(positions)}

\* C22: (a) the grow pass inserts a row for a symbol the broker reports
\* exactly when UPDATE_UNCATEGORIZED_POSITIONS is on and the broker's ledger
\* has no row of the symbol after shrink and prune; it inserts one row per
\* such symbol, for the broker, under uncategorized, with the broker's
\* quantity, and removes none; (b) with the flag off no step of
\* reconcile_positions inserts a row.
C22_GrowInserts ==
    pc = "pruned" =>
        /\ \A e \in Range(Snapshot) :
              (\E r \in Inserted : r.symbol = e.symbol)
              <=> ( /\ updateUncategorized
                    /\ ~\E r \in RowsOf(positions, broker) :
                           r.symbol = e.symbol )
        /\ \A r \in Inserted :
              /\ r.broker = broker
              /\ r.strategy = Uncategorized
              /\ r.symbol \in BrokerSymbols(Snapshot)
              /\ r.quantity = BrokerPosition(Snapshot, r.symbol).quantity
              /\ \A r2 \in Inserted : r2.symbol = r.symbol => r2 = r
        /\ Ids(positions) \subseteq Ids(positions')

C22_FlagOffInsertsNone == ~updateUncategorized => Inserted = {}

C22_GrowInsertsWhenFlagged ==
    [][C22_GrowInserts /\ C22_FlagOffInsertsNone]_vars

\* A reconciliation with the flag on completed: the broker reports two
\* symbols, the ledger held a row of one of them after shrink and prune,
\* and the grow pass inserted a row for the other alone.
C22_Witness ==
    /\ pc = "reconciled"
    /\ updateUncategorized
    /\ Len(Snapshot) = 2
    /\ \E e \in Range(Snapshot) :
          /\ \E r \in RowsOf(startPositions, broker) : r.symbol = e.symbol
          /\ ~\E r \in RowsOf(positions, broker) :
                 r.symbol = e.symbol /\ r.id \notin Ids(startPositions)
    /\ \E r \in RowsOf(positions, broker) :
          /\ r.id \notin Ids(startPositions)
          /\ r.strategy = Uncategorized
          /\ r.quantity = BrokerPosition(Snapshot, r.symbol).quantity

\* The orders in which a query may return the rows of a table.
Reorderings(rows) ==
    {p \in [DOMAIN rows -> Range(rows)] : Range(p) = Range(rows)}

\* C21: a completed reconciliation leaves the set of ledger rows (broker,
\* symbol, strategy, quantity) that reconcile_positions leaves for the same
\* snapshot and flag when the rows it began with are returned in any other
\* order.
C21_OrderIndependent ==
    pc = "reconciled" =>
        \A p \in Reorderings(startPositions) :
            LedgerRows(ReconcilePositions(p, broker, Snapshot,
                                          updateUncategorized), broker)
            = LedgerRows(positions, broker)

(***************************************************************************)
(* Claims about update_all_strategy_balances                               *)
(***************************************************************************)
\* The strategies the Balance table holds for a broker.
BalanceStrategiesOf(rows, b) ==
    {r.strategy : r \in {x \in Range(rows) : x.broker = b}}

\* The most recent balance of a type, a missing row counting as 0; of
\* several rows with the newest timestamp, the one written last.
MostRecent(rows, b, strategy, type) ==
    IF HasBalance(rows, b, strategy, type)
    THEN rows[LatestIndex(rows, b, strategy, type, "last")].balance
    ELSE 0

RECURSIVE SumMostRecent(_, _, _, _)
SumMostRecent(rows, b, strategies, type) ==
    IF strategies = {} THEN 0
    ELSE LET st == CHOOSE x \in strategies : TRUE
         IN  MostRecent(rows, b, st, type)
             + SumMostRecent(rows, b, strategies \ {st}, type)

TotalIsCashPlusPositions(rows, b, strategy) ==
    MostRecent(rows, b, strategy, "total")
        = MostRecent(rows, b, strategy, "cash")
          + MostRecent(rows, b, strategy, "positions")

\* C8 as stated: after a cycle the most recent total of every strategy of
\* the broker, uncategorized included, is its most recent cash plus its
\* most recent positions balance.
C8_TotalOfEveryStrategy ==
    pc = "balanced" =>
        \A st \in BalanceStrategiesOf(balances, broker) :
            TotalIsCashPlusPositions(balances, broker, st)

\* C8 as amended: after a cycle every strategy of the broker other than
\* uncategorized has a cash, a positions and a total row and its most
\* recent total is its most recent cash plus its most recent positions
\* balance; uncategorized has a cash row and neither of the other two.
C8_TotalOfRealStrategies ==
    pc = "balanced" =>
        /\ \A st \in BalanceStrategiesOf(balances, broker) \ {Uncategorized} :
              /\ \A type \in {"cash", "positions", "total"} :
                    HasBalance(balances, broker, st, type)
              /\ TotalIsCashPlusPositions(balances, broker, st)
        /\ HasBalance(balances, broker, Uncategorized, "cash")
        /\ ~HasBalance(balances, broker, Uncategorized, "positions")
        /\ ~HasBalance(balances, broker, Uncategorized, "total")

\* Two cycles completed and a strategy shows cash, a positions balance and
\* their sum.
C8_Witness ==
    /\ pc = "balanced"
    /\ now = 2
    /\ \E st \in BalanceStrategiesOf(balances, broker) \ {Uncategorized} :
          /\ MostRecent(balances, broker, st, "cash") > 0
          /\ MostRecent(balances, broker, st, "positions") > 0
          /\ MostRecent(balances, broker, st, "total") > 0

\* The most recent totals of the real strategies of a broker, summed.
RealTotals(rows, b) ==
    SumMostRecent(rows, b, BalanceStrategiesOf(rows, b) \ {Uncategorized},
                  "total")

\* C9 as stated: after a cycle the most recent totals of all strategies of
\* the broker sum to the account value reported in the cycle.  The
\* uncategorized row, the only one of its strategy, is taken as its total.
C9_TotalsSumToAccountValue ==
    pc = "balanced" =>
        RealTotals(balances, broker)
            + MostRecent(balances, broker, Uncategorized, "cash") = cycle.value

\* C9 as amended: the totals of the real strategies and the uncategorized
\* cash row sum to the account value when the broker quoted the same prices
\* in both passes of the cycle and the account value covers the totals of
\* the real strategies.
C9_BooksBalance ==
    ( /\ pc = "balanced"
      /\ cycle.price1 = cycle.price2
      /\ cycle.value >= RealTotals(balances, broker) )
    => RealTotals(balances, broker)
           + MostRecent(balances, broker, Uncategorized, "cash") = cycle.value

\* A cycle completed at steady prices with cash and positions under a real
\* strategy and a residual left for uncategorized.
C9_Witness ==
    /\ pc = "balanced"
    /\ cycle.price1 = cycle.price2
    /\ \E st \in BalanceStrategiesOf(balances, broker) \ {Uncategorized} :
          /\ MostRecent(balances, broker, st, "cash") > 0
          /\ MostRecent(balances, broker, st, "positions") > 0
    /\ MostRecent(balances, broker, Uncategorized, "cash") > 0
    /\ RealTotals(balances, broker) > 0

\* The strategies other than uncategorized that the ledger holds for a
\* broker: those of its positions and those of its balance rows.
LedgerStrategies(posRows, rows, b) ==
    ({r.strategy : r \in RowsOf(posRows, b)}
     \cup BalanceStrategiesOf(rows, b)) \ {Uncategorized}

\* Cash plus positions balance of a set of strategies, at the prices of the
\* second pass; a strategy without a cash row has cash 0.
RECURSIVE CategorizedWorth(_, _, _, _, _)
CategorizedWorth(rows, posRows, b, strategies, price) ==
    IF strategies = {} THEN 0
    ELSE LET st == CHOOSE x \in strategies : TRUE
         IN  MostRecent(rows, b, st, "cash")
             + CalculatePositionsBalance(posRows, b, st, price)
             + CategorizedWorth(rows, posRows, b, strategies \ {st}, price)

\* The rows the running cycle added under the uncategorized strategy.
CycleUncategorized ==
    {i \in DOMAIN balances :
        /\ i > Len(cycle.before)
        /\ balances[i].strategy = Uncategorized}

\* The scenario of C10: alpha holds 100 SYM quoted at 10 and cash 200, and
\* the account is worth 5000.
C10_Scenario ==
    /\ pc = "balanced"
    /\ RowsOf(positions, broker)
           = {PositionRow(1, broker, "SYM", "alpha", 100)}
    /\ {r \in Range(cycle.before) : r.broker = broker}
           = {BalanceRow(broker, "alpha", "cash", 200, 0)}
    /\ cycle.price1["SYM"] = 10
    /\ cycle.price2["SYM"] = 10
    /\ cycle.value = 5000

\* C10: a cycle adds exactly one uncategorized row, a cash row of the
\* broker at the cycle's timestamp, holding max(0, account value - sum over
\* the real strategies of cash + positions balance), so never negative, the
\* real strategies being the strategies other than uncategorized that the
\* ledger holds for the broker, in its positions or in its balance rows; in
\* the scenario alpha's total is 1200 and the row holds 3800.
C10_UncategorizedResidual ==
    pc = "balanced" =>
        /\ Cardinality(CycleUncategorized) = 1
        /\ \A i \in CycleUncategorized :
              /\ balances[i].broker = broker
              /\ balances[i].type = "cash"
              /\ balances[i].timestamp = now
              /\ balances[i].balance >= 0
              /\ balances[i].balance =
                   Max(0, cycle.value
                          - CategorizedWorth(balances, positions, broker,
                                LedgerStrategies(positions, balances, broker),
                                cycle.price2))
              /\ C10_Scenario =>
                    /\ MostRecent(balances, broker, "alpha", "total") = 1200
                    /\ balances[i].balance = 3800

\* C11: (a) no step of a cycle changes or removes a row the Balance table
\* holds: the table after the step begins with the table before it; (b)
\* when the cycle is over every row the table held before the cycle is
\* still there, with its broker, strategy, type, value and timestamp, and
\* the cycle added rows.
C11_StepAppends ==
    /\ Len(balances') >= Len(balances)
    /\ \A i \in DOMAIN balances : balances'[i] = balances[i]

C11_BeforeKept ==
    pc = "balanced" =>
        /\ Len(balances) > Len(cycle.before)
        /\ \A i \in DOMAIN cycle.before : balances[i] = cycle.before[i]

C11_AppendOnly == [](C11_BeforeKept) /\ [][C11_StepAppends]_vars

\* A second cycle completed and gave a strategy, that had a positions row
\* before the cycle, a positions row of another value.
C11_Witness ==
    /\ pc = "balanced"
    /\ now = 2
    /\ \E i \in DOMAIN cycle.before : \E j \in DOMAIN balances :
          /\ j > Len(cycle.before)
          /\ cycle.before[i].type = "positions"
          /\ balances[j].broker = cycle.before[i].broker
          /\ balances[j].strategy = cycle.before[i].strategy
          /\ balances[j].type = "positions"
          /\ balances[j].balance # cycle.before[i].balance
          /\ balances[i] = cycle.before[i]

(***************************************************************************)
(* Claims about calculate_profit_loss                                      *)
(***************************************************************************)
\* The trade the call was made for.
CalledTrade == CHOOSE t \in Range(trades) : t.id = result.trade

\* The rows of the Position table with the trade's broker, symbol and
\* strategy.
MatchingPositions(trade) ==
    {r \in Range(positions) :
        /\ r.broker = trade.broker
        /\ r.symbol = trade.symbol
        /\ r.strategy = trade.strategy}

\* The multiplier applied to the profit/loss of a sell.
SellMultiplier(symbol) ==
    IF IsFuturesSymbol(symbol) THEN FuturesContractSize(symbol)
    ELSE IF IsOption(symbol) THEN OptionMultiplier
    ELSE 1

AbsNumber(x) == Number(Abs(x.n), x.d)

\* calculate_profit_loss returned for a sell (in any spelling) with an
\* executed price.
SellReturned ==
    /\ pc = "returned"
    /\ result.call = "calculate_profit_loss"
    /\ CalledTrade.side \in {"sell", "Sell"}
    /\ IsNumber(CalledTrade.executed_price)

\* C12: a sell of exactly the matching position's quantity returns
\* executedPrice * tradeQty - costBasis, times the multiplier of a future
\* or an option and as it is for any other symbol.
C12_FullSell ==
    SellReturned =>
        \A r \in MatchingPositions(CalledTrade) :
            (/\ r.quantity = CalledTrade.quantity
             /\ IsNumber(marks[r.id].cost_basis))
            => result.value =
                 Mul(Whole(SellMultiplier(CalledTrade.symbol)),
                     Sub(Mul(CalledTrade.executed_price,
                             Whole(CalledTrade.quantity)),
                         marks[r.id].cost_basis))

\* A sell of the 100 shares of a position that cost 1000, at 12, returned
\* 200, another strategy holding the same symbol.
C12_Witness ==
    /\ SellReturned
    /\ CalledTrade.symbol = "SYM"
    /\ CalledTrade.executed_price = Whole(12)
    /\ Len(positions) = 2
    /\ \E r \in MatchingPositions(CalledTrade) :
          /\ r.quantity = 100
          /\ CalledTrade.quantity = 100
          /\ marks[r.id].cost_basis = Whole(1000)
    /\ result.value = Whole(200)

\* The scenario of C13: 50 of a 100-share position that cost 1000 are sold
\* at 12.
C13_Scenario ==
    /\ SellReturned
    /\ CalledTrade.symbol = "SYM"
    /\ CalledTrade.quantity = 50
    /\ CalledTrade.executed_price = Whole(12)
    /\ \E r \in MatchingPositions(CalledTrade) :
          r.quantity = 100 /\ marks[r.id].cost_basis = Whole(1000)

\* C13: a sell of another quantity than the matching position's returns
\* (executedPrice - costBasis / positionQty) * tradeQty, times the
\* multiplier of a future or an option; the scenario returns 100.  The
\* quotient is that of a position of a quantity other than 0.
C13_PartialSell ==
    /\ SellReturned =>
          \A r \in MatchingPositions(CalledTrade) :
              (/\ r.quantity # CalledTrade.quantity
               /\ r.quantity # 0
               /\ IsNumber(marks[r.id].cost_basis))
              => result.value =
                   Mul(Whole(SellMultiplier(CalledTrade.symbol)),
                       Mul(Sub(CalledTrade.executed_price,
                               Div(marks[r.id].cost_basis,
                                   Whole(r.quantity))),
                           Whole(CalledTrade.quantity)))
    /\ C13_Scenario => result.value = Whole(100)

\* The scenario of C13 returned 100.
C13_Witness ==
    /\ C13_Scenario
    /\ result.value = Whole(100)

\* C14: a buy against a matching position of negative quantity returns
\* (|costBasis| / |positionQty| - executedPrice) * |tradeQty|, whatever the
\* sign of the cost basis and the trade quantity.
C14_ShortCoverAbsCostBasis ==
    (/\ pc = "returned"
     /\ result.call = "calculate_profit_loss"
     /\ CalledTrade.side \in {"buy", "BUY"}
     /\ IsNumber(CalledTrade.executed_price))
    => \A r \in MatchingPositions(CalledTrade) :
           (r.quantity < 0 /\ IsNumber(marks[r.id].cost_basis))
           => result.value =
                Mul(Sub(Div(AbsNumber(marks[r.id].cost_basis),
                            Whole(Abs(r.quantity))),
                        CalledTrade.executed_price),
                    Whole(Abs(CalledTrade.quantity)))

\* C27: (a) calculate_profit_loss returns a number or None, never an
\* exception, to its caller, for every trade and Position table; (b) the
\* call leaves the Trade table and the Position table, all columns, as
\* they were.
C27_Returns ==
    (pc = "returned" /\ result.call = "calculate_profit_loss") =>
        /\ result.value # Raises
        /\ IsNumber(result.value) \/ result.value = NoNumber

C27_Frame ==
    /\ trades' = trades
    /\ positions' = positions
    /\ marks' = marks

C27_NeverRaises == [](C27_Returns) /\ [][C27_Frame]_vars

\* calculate_profit_loss returned None for a sell of an option with no
\* matching position, in which the partial calculation failed and the
\* multiplication of None raised.
C27_Witness ==
    /\ pc = "returned"
    /\ result.call = "calculate_profit_loss"
    /\ CalledTrade.side = "sell"
    /\ CalledTrade.symbol = OptionSymbol
    /\ IsNumber(CalledTrade.executed_price)
    /\ MatchingPositions(CalledTrade) = {}
    /\ TryCalculateProfitLoss(CalledTrade, positions, marks) = Raises
    /\ result.value = NoNumber

(***************************************************************************)
(* Claims about the status of a trade                                      *)
(***************************************************************************)
\* C15: no call changes the status of a trade that is filled or cancelled.
C15_StatusKept ==
    \A i \in DOMAIN trades :
        trades[i].status # "open" => trades'[i].status = trades[i].status

C15_LeavesOpenOnce == [][C15_StatusKept]_vars

(***************************************************************************)
(* Claims about update_position_prices_and_volatility                      *)
(***************************************************************************)
\* The loop passes made so far in the running / last valuation.
Passes == IF pc \in {"valuing", "valued"} THEN DOMAIN batch.log ELSE {}

\* C19: a position whose own price fetch raised or returned None is as it
\* was before the valuation, in every column.
C19_FailedFetchUnmodified ==
    \A k \in Passes :
        batch.log[k].calls.price \in {Raises, NoNumber}
        => marks[batch.log[k].id] = batch.before[batch.log[k].id]

\* C20: while the loop runs nothing is committed and the positions are
\* taken one by one in the order of the batch; when the valuation is over
\* every position of the batch was taken exactly once, in order, whatever
\* was raised on the way; every position whose own price fetch gave a
\* price (a number other than 0) has that price and the timestamp of the
\* valuation; and there was one commit.
C20_BatchIsolation ==
    /\ pc = "valuing" =>
          /\ batch.commits = 0
          /\ Len(batch.log) = batch.index - 1
          /\ \A k \in DOMAIN batch.log : batch.log[k].id = positions[k].id
    /\ pc = "valued" =>
          /\ batch.commits = 1
          /\ Len(batch.log) = Len(positions)
          /\ \A k \in DOMAIN batch.log :
                /\ batch.log[k].id = positions[k].id
                /\ Truthy(batch.log[k].calls.price) =>
                      /\ marks[positions[k].id].latest_price
                            = batch.log[k].calls.price
                      /\ marks[positions[k].id].last_updated = now

\* A valuation of two positions is over: the price fetch of the first
\* raised, the second got its price and then the fetch of its underlying
\* raised.
C20_Witness ==
    /\ pc = "valued"
    /\ Len(positions) = 2
    /\ batch.log[1].calls.price = Raises
    /\ batch.log[2].calls.price = Whole(12)
    /\ batch.log[2].calls.underlying = Raises
    /\ marks[positions[2].id].latest_price = Whole(12)
    /\ marks[positions[1].id] = batch.before[positions[1].id]

\* C29: a position whose own price fetch gave a price and for whose
\* underlying the volatility computation returned None has the fetched
\* price and the timestamp of the valuation, and the underlying price and
\* volatility it had before the valuation; when the valuation is over this
\* is committed, by its one commit.
C29_VolatilityFailureKeepsPrice ==
    /\ \A k \in Passes :
          ( /\ Truthy(batch.log[k].calls.price)
            /\ batch.log[k].calls.volatility = NoNumber )
          => LET id == batch.log[k].id
             IN  /\ marks[id].latest_price = batch.log[k].calls.price
                 /\ marks[id].last_updated = now
                 /\ marks[id].underlying_latest_price
                       = batch.before[id].underlying_latest_price
                 /\ marks[id].underlying_volatility
                       = batch.before[id].underlying_volatility
    /\ pc = "valued" => batch.commits = 1

\* A valuation is over in which a position got its price 12, the price 11
\* of its underlying was fetched and the volatility computation returned
\* None: the position has the price 12 and the underlying price 9 and
\* volatility 1/2 it had.
C29_Witness ==
    /\ pc = "valued"
    /\ \E k \in Passes :
          /\ batch.log[k].calls.price = Whole(12)
          /\ batch.log[k].calls.underlying = Whole(11)
          /\ batch.log[k].calls.volatility = NoNumber
          /\ marks[batch.log[k].id].latest_price = Whole(12)
          /\ marks[batch.log[k].id].underlying_latest_price = Whole(9)
          /\ marks[batch.log[k].id].underlying_volatility = Number(1, 2)

\* C30: after the pass of a position its underlying volatility is the one
\* it had before the valuation exactly when its underlying price is: the
\* two are written together or not at all.
C30_UnderlyingTogether ==
    \A k \in Passes :
        LET id == batch.log[k].id
        IN  (marks[id].underlying_volatility
               = batch.before[id].underlying_volatility)
            <=> (marks[id].underlying_latest_price
                   = batch.before[id].underlying_latest_price)

(***************************************************************************)
(* Claims about the sync worker's iteration                                *)
(***************************************************************************)
\* C16: (a) once the timeout has expired the iteration has ended with the
\* timeout error for its caller, and the tables are those of the last
\* commit before the expiry; (b) from the expiry on no stage runs and
\* nothing is committed: the log of the stages and the committed tables
\* stay as they are, the step of the expiry included.
C16_Ended ==
    iteration.deadline =>
        /\ pc = "timed_out"
        /\ iteration.outcome = "timeout"
        /\ positions = committed.positions
        /\ marks = committed.marks
        /\ balances = committed.balances

C16_NothingAfter ==
    (iteration.deadline \/ iteration'.deadline) =>
        /\ iteration'.log = iteration.log
        /\ committed' = committed

C16_TimeoutEndsIteration == [](C16_Ended) /\ [][C16_NothingAfter]_vars

\* The timeout expired after a commit of the iteration and while rows that
\* a failed balance derivation had added were waiting in the session.
C16_Witness ==
    /\ pc = "timed_out"
    /\ committed.count >= 1
    /\ Len(iteration.log) >= 2
    /\ iteration.log[Len(iteration.log)].raised
    /\ \E b \in Range(iteration.brokers) :
          /\ iteration.health[b] = "account"
          /\ GetStrategies(balances, b) # << >>

\* The brokers of the iteration all of whose calls succeed.
Healthy == {b \in Range(iteration.brokers) : iteration.health[b] = "ok"}

\* C17: when the iteration is over, every broker all of whose calls
\* succeeded has balance rows of the iteration.
C17_HealthyBrokersDerived ==
    pc = "completed" =>
        \A b \in Healthy :
            \E r \in Range(balances) : r.broker = b /\ r.timestamp = now

\* The steps of the reconcile+balance stage.
BrokerSteps == {"reconcile", "balance"}

\* C18: (a) the log of an iteration that is over without a timeout is the
\* steps of the reconcile+balance stage, then the valuation, then the
\* final commit; (b) the reconcile+balance stage, completed or left by an
\* exception, is followed by the valuation, the valuation by the final
\* commit and the final commit by the exit of the session, unless the
\* timeout expires.
C18_Order ==
    LET log == iteration.log
    IN  /\ pc \in {"brokers", "valuation"} =>
              \A k \in DOMAIN log : log[k].step \in BrokerSteps
        /\ pc = "commit" =>
              /\ Len(log) >= 2
              /\ log[Len(log)].step = "valuation"
              /\ \A k \in 1..(Len(log) - 1) : log[k].step \in BrokerSteps
        /\ pc \in {"closing", "completed"} =>
              /\ Len(log) >= 3
              /\ log[Len(log)].step = "commit"
              /\ log[Len(log) - 1].step = "valuation"
              /\ \A k \in 1..(Len(log) - 2) : log[k].step \in BrokerSteps
              /\ committed.positions = positions
              /\ committed.marks = marks
              /\ committed.balances = balances

C18_Next ==
    /\ (pc = "brokers" /\ pc' # "brokers") =>
           pc' \in {"valuation", "timed_out"}
    /\ (pc = "valuation" /\ pc' # "valuation") =>
           pc' \in {"commit", "timed_out"}
    /\ (pc = "commit" /\ pc' # "commit") =>
           pc' \in {"closing", "timed_out"}
    /\ (pc = "closing" /\ pc' # "closing") =>
           pc' \in {"completed", "timed_out"}

C18_ValuationThenCommit == [](C18_Order) /\ [][C18_Next]_vars

\* An iteration is over whose reconcile+balance stage was left by an
\* exception of the first of two brokers, and the valuation gave a
\* position of the other broker its price.
C18_Witness ==
    /\ pc = "completed"
    /\ Len(iteration.brokers) = 2
    /\ Len(iteration.log) = 3
    /\ iteration.log[1].raised
    /\ \E r \in Range(positions) :
          /\ r.broker = iteration.brokers[2]
          /\ marks[r.id].latest_price = Whole(IterationPrices[r.symbol])
          /\ marks[r.id].last_updated = now

\* The Balance rows of a broker that carry a timestamp.
CycleRows(rows, b, stamp) ==
    {r \in Range(rows) : r.broker = b /\ r.timestamp = stamp}

\* The rows of a whole derivation cycle: cash, positions and total for
\* every strategy the cycle enumerates, and the uncategorized row.
CycleComplete(rows, b, stamp) ==
    /\ \A s \in Range(GetStrategies(rows, b)) :
          \A type \in {"cash", "positions", "total"} :
              \E r \in CycleRows(rows, b, stamp) :
                  r.strategy = s /\ r.type = type
    /\ \E r \in CycleRows(rows, b, stamp) :
          r.strategy = Uncategorized /\ r.type = "cash"

\* C23: when the iteration is over, the committed Balance rows of the
\* iteration's cycle for a broker are all the rows of the cycle or none.
C23_CycleAllOrNothing ==
    pc = "completed" =>
        \A b \in Range(iteration.brokers) :
            \/ CycleRows(committed.balances, b, now) = {}
            \/ CycleComplete(committed.balances, b, now)

\* C24: when the iteration is over, the committed rows of a broker whose
\* reconcile_positions raised are the rows the broker had when that
\* reconciliation began: none deleted, none changed.
C24_ReconcileAllOrNothing ==
    pc = "completed" =>
        \A k \in DOMAIN iteration.log :
            (iteration.log[k].step = "reconcile" /\ iteration.log[k].raised)
            => RowsOf(committed.positions, iteration.log[k].broker)
               = RowsOf(startPositions, iteration.log[k].broker)

(***************************************************************************)
(* Claims about the strategies of a cycle and their positions balance      *)
(***************************************************************************)
\* The sum over a strategy's positions of price * quantity * multiplier,
\* the multiplier being that of the profit/loss calculator.
LinearPositionsBalance(posRows, b, strategy, price) ==
    LET mine(r) == r.broker = b /\ r.strategy = strategy
        value(r) == price[r.symbol] * r.quantity * SellMultiplier(r.symbol)
        held == SelectSeq(posRows, mine)
    IN  SumSeq([i \in 1..Len(held) |-> value(held[i])])

\* The rows the running / last cycle has added to the Balance table.
CycleAdded == {i \in DOMAIN balances : i > Len(cycle.before)}

\* C25: every positions row a cycle writes for a strategy is the sum over
\* the strategy's positions of price * quantity * multiplier, at the prices
\* the broker quoted in that pass.
C25_PositionsBalanceLinear ==
    pc = "strategies" =>
        \A i \in CycleAdded :
            balances[i].type = "positions"
            => balances[i].balance =
                 LinearPositionsBalance(positions, balances[i].broker,
                                        balances[i].strategy, cycle.price1)

\* C26: a cycle adds a cash, a positions and a total row for every strategy
\* other than uncategorized that the ledger holds for the broker, the cash
\* row being 0 for a strategy that had no cash row.
C26_EveryLedgerStrategy ==
    pc \in {"strategies", "balanced"} =>
        \A s \in LedgerStrategies(positions, cycle.before, broker) :
            /\ \A type \in {"cash", "positions", "total"} :
                  \E i \in CycleAdded :
                      /\ balances[i].broker = broker
                      /\ balances[i].strategy = s
                      /\ balances[i].type = type
            /\ ~HasBalance(cycle.before, broker, s, "cash") =>
                  \A i \in CycleAdded :
                      ( /\ balances[i].broker = broker
                        /\ balances[i].strategy = s
                        /\ balances[i].type = "cash" )
                      => balances[i].balance = 0

(***************************************************************************)
(* Claims about an iteration with RECONCILE_POSITIONS off                  *)
(***************************************************************************)
\* The rows of a table begin with the rows of another, unchanged.
Extends(longer, shorter) ==
    /\ Len(longer) >= Len(shorter)
    /\ \A i \in DOMAIN shorter : longer[i] = shorter[i]

\* The columns of after hold the cost basis of before, row by row.
SameCostBasis(after, before) ==
    /\ DOMAIN after = DOMAIN before
    /\ \A id \in DOMAIN before : after[id].cost_basis = before[id].cost_basis

\* C28: with RECONCILE_POSITIONS off, no step of an iteration inserts or
\* deletes a Position row or changes a row's broker, symbol, strategy,
\* quantity or cost basis, in the session or in what is committed; the
\* committed Balance table only grows at its end, and so does the
\* session's until a timeout discards what was not committed.
C28_Frame ==
    ~reconcilePositions =>
        /\ positions' = positions
        /\ committed'.positions = committed.positions
        /\ SameCostBasis(marks', marks)
        /\ SameCostBasis(committed'.marks, committed.marks)
        /\ Extends(committed'.balances, committed.balances)
        /\ pc' # "timed_out" => Extends(balances', balances)

C28_FlagOffFrame == [][C28_Frame]_vars

\* An iteration with RECONCILE_POSITIONS off is over: a position got the
\* broker's price and the timestamp of the iteration, and Balance rows
\* were committed.
C28_Witness ==
    /\ pc = "completed"
    /\ ~reconcilePositions
    /\ \E r \in Range(committed.positions) :
          /\ committed.marks[r.id].latest_price
                = Whole(IterationPrices[r.symbol])
          /\ committed.marks[r.id].last_updated = now
          /\ committed.marks[r.id].cost_basis = Whole(1000)
    /\ Len(committed.balances) > Len(CashCandidates)

(***************************************************************************)
(* Claims about the cash of a strategy across cycles                       *)
(***************************************************************************)
\* The rows the Balance table held before the first cycle: the cycles stamp
\* their rows 1, 2, ... and never change a row.
RowsBeforeFirstCycle ==
    LET old(r) == r.timestamp = 0
    IN  SelectSeq(balances, old)

\* The cash rows the running cycle added for a strategy.
CycleCashRows(strategy) ==
    {i \in CycleAdded :
        /\ balances[i].broker = broker
        /\ balances[i].strategy = strategy
        /\ balances[i].type = "cash"}

\* The real strategies the running cycle found in the Balance table.
CycleStrategies == BalanceStrategiesOf(cycle.before, broker) \ {Uncategorized}

\* Cash plus positions balance of the strategies, the cash being the row the
\* running cycle added and the positions being valued at the prices of the
\* second pass.
RECURSIVE CycleWorth(_)
CycleWorth(strategies) ==
    IF strategies = {} THEN 0
    ELSE LET st == CHOOSE x \in strategies : TRUE
             i == CHOOSE x \in CycleCashRows(st) : TRUE
         IN  balances[i].balance
             + CalculatePositionsBalance(positions, broker, st, cycle.price2)
             + CycleWorth(strategies \ {st})

\* The values of the cash rows of a strategy that carry the newest
\* timestamp: what a query for the most recent cash may return.
NewestCash(rows, b, strategy) ==
    IF HasBalance(rows, b, strategy, "cash")
    THEN {rows[i].balance : i \in NewestIndices(rows, b, strategy, "cash")}
    ELSE {0}

\* After any number of cycles the most recent cash of every real strategy is
\* its most recent cash before the first cycle (one of them, where rows
\* supplied with one timestamp differ); a cycle adds one cash row per real
\* strategy, holding the cash the strategy had before the cycle, and that
\* row alone is then the newest; and the residual is the account value less
\* the worth computed from the cash rows of the same cycle.
C31_CashKept ==
    /\ \A r \in Range(balances) : \A tie \in TieOrders :
          r.strategy # Uncategorized =>
              GetCashBalance(balances, r.broker, r.strategy, tie)
                  \in NewestCash(RowsBeforeFirstCycle, r.broker, r.strategy)
    /\ pc \in {"strategies", "balanced"} =>
          \A s \in CycleStrategies :
              /\ Cardinality(CycleCashRows(s)) = 1
              /\ CycleCashRows(s) = NewestIndices(balances, broker, s, "cash")
              /\ \A i \in CycleCashRows(s) :
                    /\ balances[i].timestamp = now
                    /\ balances[i].balance
                          \in NewestCash(cycle.before, broker, s)
    /\ pc = "balanced" =>
          \A i \in CycleUncategorized :
              balances[i].balance
                  = Max(0, cycle.value - CycleWorth(CycleStrategies))

\* No step changes the most recent cash of a real strategy.
C31_Step ==
    \A r \in Range(balances) : \A tie \in TieOrders :
        r.strategy # Uncategorized =>
            GetCashBalance(balances', r.broker, r.strategy, tie)
                \in NewestCash(balances, r.broker, r.strategy)

\* C31: balance derivation never changes a strategy's cash: across any
\* number of cycles the most recent cash balance of every real strategy
\* equals its most recent cash balance before the first cycle, no step
\* changing it, and the cash used for the uncategorized residual is the
\* cash row inserted in the same cycle.
C31_CashNeverChanges == [](C31_CashKept) /\ [][C31_Step]_vars

\* Two cycles are over for a strategy that holds positions worth something
\* and had two cash rows of one timestamp, 200 and 300, before the first:
\* each cycle added a cash row of 200 for it, the positions balance of the
\* second was not zero, and a residual was left.
C31_Witness ==
    /\ pc = "balanced"
    /\ now = 2
    /\ NewestCash(RowsBeforeFirstCycle, broker, "alpha") = {200, 300}
    /\ \A t \in 1..2 :
          \E r \in Range(balances) :
              r = BalanceRow(broker, "alpha", "cash", 200, t)
    /\ MostRecent(balances, broker, "alpha", "positions") # 0
    /\ \A tie \in TieOrders :
          GetCashBalance(balances, broker, "alpha", tie) = 200
    /\ \E i \in CycleUncategorized :
          balances[i].balance > 0

====
